---- MODULE Spec2Model ----
(***************************************************************************)
(* Safehaven: the safety prediction service (SafetyMLService) and the      *)
(* report submission handler that drives it.                               *)
(*                                                                         *)
(* The server runs on one JavaScript event loop.  Every action below is    *)
(* one synchronous run of code: from a call, or from the resolution of an  *)
(* awaited promise, up to the next await.  Awaited I/O (report store,      *)
(* file system, model fitting) is in flight between two actions.           *)
(*                                                                         *)
(* Numbers.  Scores, confidences and losses are in thousandths (0.1 is     *)
(* 100).  Time is counted in units of TimeUnitMs milliseconds from the     *)
(* start of the process; timestamps of older reports are negative.         *)
(* Coordinates are in millionths of a degree.                              *)
(***************************************************************************)
EXTENDS Integers, Sequences, FiniteSets, TLC

\* ------------------------------------------------------------------ bounds
\* Three specifications share the actions and differ in what the environment
\* does (the record env): Spec exercises the training scheduler, SpecCache the
\* prediction cache over time, SpecScore the arithmetic of a prediction.
\* Time advances at most this many units (Spec and SpecScore; SpecCache).
MaxTime == 1
CacheMaxTime == 2
\* At most this many report submissions are accepted for saving.
MaxSubmit == 1
\* At most this many predictSafety calls await the report store at once
\* (Spec and SpecScore; SpecCache).
MaxInflight == 1
MaxHotspotRequests == 1
MaxRouteQueries == 1
\* Time advances at most this many units in SpecExpiry: past the TTL.
ExpiryMaxTime == 3
CacheMaxInflight == 1

\* ------------------------------------------------------------- time, units
TimeUnitMs == 150 * 1000
TicksPerDay == (24 * 60 * 60 * 1000) \div TimeUnitMs
\* this.cacheTTL = 5 * 60 * 1000
cacheTTL == (5 * 60 * 1000) \div TimeUnitMs
\* setTimeout(..., 1000) in processTrainingQueue: due within one time unit
RescheduleDelayMs == 1000

Null == << >>
Some(v) == << v >>
Min(a, b) == IF a < b THEN a ELSE b
Max(a, b) == IF a > b THEN a ELSE b

\* remove the i-th element of a sequence
RemoveAt(s, i) == SubSeq(s, 1, i - 1) \o SubSeq(s, i + 1, Len(s))

\* ------------------------------------------------------------ sample data
\* Query points.  P1 and P2 differ below the 5th decimal (same cache key),
\* P3 differs in the 5th decimal of the latitude.
P1 == [lat |-> 157080, lng |-> 628319]
P2 == [lat |-> 157083, lng |-> 628321]
P3 == [lat |-> 157086, lng |-> 628319]
\* A place about 35 km north of P1.
PFar == [lat |-> 471239, lng |-> 628319]
Points == {P1, P2, P3}

\* Route geometry (SafetyController).  const earthRadius = 6371; count = 8
\* route points; 3 mid points on the way to each.
earthRadius == 6371
RouteCount == 8
MidCount == 3
\* The value of Math.random() in generateRoutePoints, in thousandths: with 0.5
\* the distance is 1 km and the angle is not perturbed.
RouteRandom == 500
\* cos and sin of i * 2 * pi / 8 for i = 0..7, and sin of i * pi / 4 for
\* i = 1..3, in thousandths.
Cos8 == << 1000, 707, 0, -707, -1000, -707, 0, 707 >>
Sin8 == << 0, 707, 1000, 707, 0, -707, -1000, -707 >>
SinQuarter == << 707, 1000, 707 >>
\* 1 / Math.cos(lat * Math.PI / 180), to the nearest whole number, for the
\* latitudes of the sample origins: within a degree of the equator it is 1
\* (to 0.02 %); close to the pole cos(lat) is the colatitude in radians.
SecLat(lat) ==
    IF lat > -1000000 /\ lat < 1000000 THEN 1
    ELSE 57295780 \div (90000000 - lat)
\* generateRoutePoints(lat, lng)[i - 1], with the value `random` of
\* Math.random() for the distance.
generateRoutePoint(lat, lng, i, random) ==
    LET variableDistanceM == 700 + (600 * random) \div 1000
        \* (variableDistance / earthRadius) * (180 / pi), in millionths of a degree
        arc == (variableDistanceM * 572958) \div (earthRadius * 10)
    IN [ lat |-> lat + (arc * Cos8[i]) \div 1000,
         lng |-> lng + ((arc * Sin8[i]) \div 1000) * SecLat(lat) ]
\* getMidPoints(lat1, lng1, lat2, lng2, count)[i - 1]
getMidPoint(lat1, lng1, lat2, lng2, i, count) ==
    LET dx == lat2 - lat1
        dy == lng2 - lng1
    IN [ lat |-> lat1 + (i * dx) \div (count + 1) + (SinQuarter[i] * dy) \div 10000000,
         lng |-> lng1 + (i * dy) \div (count + 1) - (SinQuarter[i] * dx) \div 10000000 ]
\* The mid points of the routes from an origin: one sequence per route.
RouteMidPoints(origin) ==
    [ leg \in 1..RouteCount |->
        LET end == generateRoutePoint(origin.lat, origin.lng, leg, RouteRandom)
        IN [ m \in 1..MidCount |->
               getMidPoint(origin.lat, origin.lng, end.lat, end.lng, m, MidCount) ] ]
\* An origin on the equator.
OriginEquator == [lat |-> 0, lng |-> 628319]

\* Four report locations 0.002 degrees apart, going north from (c, lng of P1).
RankCentre(c, i) == [lat |-> c + 2000 * i, lng |-> 628319]
RankCentres == { RankCentre(c, i) : c \in {157080, 471239, 785398}, i \in 0..3 }

Places ==
    Points \cup {PFar} \cup RankCentres
      \cup { RouteMidPoints(P1)[leg][m] : leg \in 1..RouteCount, m \in 1..MidCount }

\* Seconds since midnight at process start: 05:57:30 (night, then hour 6
\* after one unit) and 07:57:30 (hour 7, then hour 8).
StartClocks == {21450, 28650}

\* Outputs a regression network can give: below, inside and above [0.1, 0.9].
RawOutputs == {-300, 450, 1200}
\* Math.random() * 0.1 - 0.05 lies in [-0.05, 0.05)
RandomFactors == {-50, 0, 49}
\* Final training loss reported by fit.
Losses == {40}

Rep(loc, type, severity, ts) ==
    [location |-> loc, type |-> type, severity |-> severity, timestamp |-> ts]
Repeat(n, r) == [i \in 1..n |-> r]
\* Report stores at process start: empty; 9 reports (one short of the
\* training minimum); 10 recent unsafe reports at P1.
StoreNine ==
    Repeat(6, Rep(P1, "safe", 1, -40 * TicksPerDay))
      \o Repeat(2, Rep(PFar, "incident", 3, -2 * TicksPerDay))
      \o Repeat(1, Rep(P1, "suspicious", 2, -1))
StoreTen == Repeat(10, Rep(P1, "unsafe", 5, -1))
\* 20 reports of two days ago: 17 at P1 and then 3 at PFar.
StoreTwenty ==
    Repeat(17, Rep(P1, "safe", 1, -2 * TicksPerDay))
      \o Repeat(3, Rep(PFar, "suspicious", 2, -2 * TicksPerDay))
\* The same with one more report, of yesterday, that has no location.
\* 21 reports at 12 locations in three groups some 35 km apart: 5 reports
\* around P1, 7 around PFar (4 of them unsafe and recent) and 9 further
\* north (one of them a recent incident); the older reports come first.
StoreRank ==
    [ i \in 1..4 |-> Rep(RankCentre(157080, i - 1), "safe", 1, -2 * TicksPerDay) ]
      \o Repeat(1, Rep(RankCentre(157080, 0), "safe", 1, -2 * TicksPerDay))
      \o Repeat(3, Rep(RankCentre(471239, 0), "safe", 1, -2 * TicksPerDay))
      \o Repeat(4, Rep(RankCentre(785398, 0), "safe", 1, -2 * TicksPerDay))
      \o [ i \in 1..4 |-> Rep(RankCentre(785398, i - 1), "safe", 1, -2 * TicksPerDay) ]
      \o [ i \in 1..4 |-> Rep(RankCentre(471239, i - 1), "unsafe", 4, -1) ]
      \o << Rep(RankCentre(785398, 2), "incident", 4, -1) >>
StoreMalformed == Append(StoreTwenty, Rep(Null, "unsafe", 5, -TicksPerDay))
InitialStores == { << >>, StoreNine, StoreTen }

\* Model directory at process start: empty, or a saved model with metadata.
\* Weights are named by a number: 0 is what createModel() gives, a fit adds 1.
DiskEmpty == [model |-> Null, metadata |-> Null]
DiskSaved ==
    [ model |-> Some(10),
      metadata |-> Some([loss |-> 55, lastTrainedAt |-> Some(-3 * TicksPerDay),
                         sampleSize |-> 25]) ]
InitialDisks == { DiskEmpty, DiskSaved }

\* Bodies of POST /api/safety/report.
InputUnsafe ==
    [location |-> Some(P1), description |-> TRUE, type |-> "unsafe", severity |-> 5]
SubmitInputs ==
    { InputUnsafe,
      [location |-> Some(P1), description |-> TRUE, type |-> "safe", severity |-> 1],
      [location |-> Null, description |-> TRUE, type |-> "unsafe", severity |-> 5],
      [location |-> Some(P1), description |-> FALSE, type |-> "incident", severity |-> 4] }

VARIABLES
    env,              \* what the environment does in this run (never changes)
    now,              \* Date.now(), in time units since process start
    clock0,           \* wall clock at process start, seconds since midnight
    reports,          \* the Report Store's collection, in insertion order
    disk,             \* the model directory: model files and metadata.json
    model,            \* this.model: Null or Some(weights)
    isTraining,       \* this.isTraining
    lastTrainedAt,    \* this.lastTrainedAt: Null or Some(time)
    trainingQueue,    \* this.trainingQueue
    predictionCache,  \* this.predictionCache: set of entries, one per key
    modelLoss,        \* this.modelLoss: Null or Some(loss)
    predictedHotspots,\* this.predictedHotspots
    lastSampleSize,   \* this.lastSampleSize
    initPc,           \* position of initModel()
    passes,           \* processTrainingQueue() runs in flight
    timers,           \* pending setTimeout callbacks
    saving,           \* submitReport requests awaiting report.save()
    submitted,        \* submissions accepted for saving so far
    preds,            \* predictSafety calls awaiting findNearby
    nearbyCalls,      \* getNearbyHotspots calls awaiting identifyHotspots
    routeQueries,     \* getSafeRoutes requests in flight
    requests,         \* route and hotspot requests received so far
    emitted,          \* number of io.emit('safetyUpdate') broadcasts made
    scheduleCalls,    \* history: number of scheduleTraining() calls made
    passesStarted,    \* history: number of processTrainingQueue() runs started
    auth,             \* client: the state of AuthProvider, its requests in flight
    geo,              \* client: the state of MapContainer, its calls and timers
    poll,             \* client: the model-status effect of ReportHandler
    lastRet,          \* history: per cache key, the last result returned
    pendingRequest,   \* history: a scheduleTraining call found a pass running
    ev                \* history: what the last action did

vars ==
    << env, now, clock0, reports, disk, model, isTraining, lastTrainedAt,
       trainingQueue, predictionCache, modelLoss, predictedHotspots,
       lastSampleSize, initPc, passes, timers, saving, submitted, preds,
       nearbyCalls, routeQueries, requests, emitted, scheduleCalls, passesStarted, auth, geo, poll,
       lastRet, pendingRequest, ev >>

NoEv == [op |-> "none"]

\* ------------------------------------------------------------------ clock
\* new Date().getHours()
Hour(t) == ((clock0 + (t * TimeUnitMs) \div 1000) \div 3600) % 24

\* --------------------------------------------------------------- geometry
RECURSIVE ISqrtIn(_, _, _)
ISqrtIn(n, lo, hi) ==
    IF lo >= hi THEN lo
    ELSE LET mid == (lo + hi + 1) \div 2
         IN IF mid * mid <= n THEN ISqrtIn(n, mid, hi) ELSE ISqrtIn(n, lo, mid - 1)
ISqrt(n) == ISqrtIn(n, 0, 46340)

\* const R = 6371
EarthRadiusKm == 6371
\* Metres per degree of arc: R * 1000 * pi / 180.
MetresPerDegree == (EarthRadiusKm * 31416) \div 1800
\* Math.sin of an angle of 0 to 180 degrees given in hundredths of a degree,
\* in thousandths: 4 x (180 - x) / (40500 - x (180 - x)), within 0.2 %.
SinCentiDeg(x) ==
    LET p == x * (18000 - x)
    IN (4 * p) \div ((405000000 - p) \div 1000)
\* calculateDistance, in metres (-1 for NaN), for points a few km apart,
\* where c = 2 atan2(sqrt(a), sqrt(1 - a)) is 2 sqrt(a):
\*   R * sqrt(dLat^2 + 4 cos(lat1) cos(lat2) sin^2(dLon / 2)).
\* Within a degree of the equator cos(lat) > 0.99984 and this is the flat
\* distance (beyond 40 km, where only "far" matters, the larger of the two
\* components); elsewhere R cos(lat) is taken as the distance to the pole, for
\* latitudes close to it.
calculateDistance(lat1, lon1, lat2, lon2) ==
    LET dLatM == ((lat2 - lat1) * (MetresPerDegree \div 100)) \div 10000
        dLonM == ((lon2 - lon1) * (MetresPerDegree \div 100)) \div 10000
        atEquator(lat) == lat > -1000000 /\ lat < 1000000
        toPoleM(lat) == ((90000000 - lat) * (MetresPerDegree \div 100)) \div 10000
        dLon == IF lon2 >= lon1 THEN lon2 - lon1 ELSE lon1 - lon2
        half == (dLon \div 20000) % 18000
        chord(lat) == (2 * toPoleM(lat) * SinCentiDeg(half)) \div 1000
        sq == dLatM * dLatM + chord(lat1) * chord(lat2)
        abs(x) == IF x < 0 THEN -x ELSE x
    IN IF atEquator(lat1) /\ atEquator(lat2)
       THEN IF abs(dLatM) > 40000 \/ abs(dLonM) > 20000
            THEN Max(abs(dLatM), abs(dLonM))
            ELSE ISqrt(dLatM * dLatM + dLonM * dLonM)
       ELSE IF sq < 0 THEN -1 ELSE ISqrt(sq)

\* The places reports and queries lie at, and the distance between them.
PlaceDistance ==
    [ a \in Places |-> [ b \in Places |->
        calculateDistance(a.lat, a.lng, b.lat, b.lng) ] ]

\* Number.prototype.toFixed(5) of a non-negative coordinate: the number of
\* hundred-thousandths, rounded to nearest.
toFixed5(x) == (x + 5) \div 10
\* `${lat.toFixed(5)},${lng.toFixed(5)}`
CacheKey(lat, lng) == << toFixed5(lat), toFixed5(lng) >>
Keys == { CacheKey(p.lat, p.lng) : p \in Places }

\* ----------------------------------------------------------- report store
\* SafetyReport.findNearby(lat, lng, radiusKm): the stored reports within the
\* radius (given here in metres).  A report without a location is not near
\* any point.
findNearby(store, lat, lng, radiusM) ==
    LET here == [lat |-> lat, lng |-> lng]
    IN SelectSeq(store, LAMBDA r : /\ r.location # Null
                                   /\ PlaceDistance[here][r.location] <= radiusM)

\* SafetyReport.find().sort({ timestamp: -1 }).limit(n): the newest n reports,
\* newest first.  The collection is kept in the order of the timestamps.
RECURSIVE Reverse(_)
Reverse(s) == IF s = << >> THEN << >> ELSE Append(Reverse(Tail(s)), Head(s))
findNewest(store, limit) ==
    LET n == Min(Len(store), limit)
    IN Reverse(SubSeq(store, Len(store) - n + 1, Len(store)))

\* Some report of the batch has no location: reading its
\* location.coordinates throws a TypeError.
HasMalformed(fetched) == \E k \in DOMAIN fetched : fetched[k].location = Null

\* ------------------------------------------------------- the service object
\* The fields of the SafetyMLService singleton, with the asynchronous work it
\* has in flight (passes, timers).
Service ==
    [ model |-> model, isTraining |-> isTraining, lastTrainedAt |-> lastTrainedAt,
      trainingQueue |-> trainingQueue, predictionCache |-> predictionCache,
      modelLoss |-> modelLoss, predictedHotspots |-> predictedHotspots,
      lastSampleSize |-> lastSampleSize, passes |-> passes, timers |-> timers ]

Install(s) ==
    /\ model' = s.model
    /\ isTraining' = s.isTraining
    /\ lastTrainedAt' = s.lastTrainedAt
    /\ trainingQueue' = s.trainingQueue
    /\ predictionCache' = s.predictionCache
    /\ modelLoss' = s.modelLoss
    /\ predictedHotspots' = s.predictedHotspots
    /\ lastSampleSize' = s.lastSampleSize
    /\ passes' = s.passes
    /\ timers' = s.timers

\* The live model and its metadata.
Snapshot(s) ==
    [ model |-> s.model, modelLoss |-> s.modelLoss,
      lastTrainedAt |-> s.lastTrainedAt, lastSampleSize |-> s.lastSampleSize ]

\* A processTrainingQueue() run that has just called trainModel(), which
\* awaits SafetyReport.find().  `before` is the model and metadata as they
\* were when trainModel() was called, brought up to date with what initModel()
\* has written since (history); `detached` says that this.model was replaced
\* while fit() runs on the old object; `metadata` is what saveModel() writes;
\* `scan` is the loop of identifyHotspots() while it awaits predictSafety;
\* `saveFailed` records that saveModel() threw in this pass, `trained` that
\* its fit() resolved (history).
NewPass(s) ==
    [ pc |-> "find", before |-> Snapshot(s), detached |-> FALSE, metadata |-> Null,
      scan |-> Null, saveFailed |-> FALSE, trained |-> FALSE ]

SetPc(s, i, pc) == [s EXCEPT !.passes[i].pc = pc]

\* createModel()
createModel == Some(0)

\* processTrainingQueue(), up to its first await.
processTrainingQueue_flagNotSet(s) ==
    IF s.isTraining \/ Len(s.trainingQueue) = 0
    THEN s
    ELSE [s EXCEPT !.trainingQueue = << >>, !.passes = Append(@, NewPass(s))]
processTrainingQueue_keepQueue(s) ==
    IF s.isTraining \/ Len(s.trainingQueue) = 0
    THEN s
    ELSE [s EXCEPT !.isTraining = TRUE, !.passes = Append(@, NewPass(s))]
processTrainingQueue(s) ==
    IF s.isTraining \/ Len(s.trainingQueue) = 0
    THEN s
    ELSE [s EXCEPT !.isTraining = TRUE,
                   !.trainingQueue = << >>,
                   !.passes = Append(@, NewPass(s))]

\* processTrainingQueue(): the finally block that ends run i.
processTrainingQueueFinally_keepFlag(s, i) ==
    LET s1 == [s EXCEPT !.passes = RemoveAt(@, i)]
    IN IF Len(s1.trainingQueue) > 0
       THEN [s1 EXCEPT !.timers = @ + 1]
       ELSE s1
processTrainingQueueFinally(s, i) ==
    LET s1 == [s EXCEPT !.isTraining = FALSE, !.passes = RemoveAt(@, i)]
    IN IF Len(s1.trainingQueue) > 0
       THEN [s1 EXCEPT !.timers = @ + 1]
       ELSE s1

\* scheduleTraining()
scheduleTraining_enqueue(s) ==
    LET s1 == [s EXCEPT !.trainingQueue = Append(@, now)]
        s2 == processTrainingQueue(s1)
    IN [s2 EXCEPT !.predictionCache = {}]
scheduleTraining(s) ==
    IF s.isTraining
    THEN s
    ELSE LET s1 == [s EXCEPT !.trainingQueue = Append(@, now)]
             s2 == processTrainingQueue(s1)
         IN [s2 EXCEPT !.predictionCache = {}]

\* A call of scheduleTraining() on service state s, by initModel or by
\* submitReport for a report it has stored, and what the call leaves behind.
CallScheduleTraining(s, by, report) ==
    LET s2 == scheduleTraining(s)
    IN /\ Install(s2)
       /\ scheduleCalls' = scheduleCalls + 1
       /\ passesStarted' = passesStarted + (Len(s2.passes) - Len(s.passes))
       /\ UNCHANGED << auth, geo, poll >>
       /\ pendingRequest' = IF s.isTraining THEN TRUE
                            ELSE IF Len(s2.passes) > Len(s.passes) THEN FALSE
                            ELSE pendingRequest
       /\ lastRet' = [k \in Keys |-> Null]
       /\ preds' = [j \in DOMAIN preds |-> [preds[j] EXCEPT !.prev = Null]]
       /\ ev' = [ op |-> "scheduleTraining",
                  by |-> by, report |-> report,
                  status |-> IF by = "submitReport" THEN 201 ELSE 0,
                  wasTraining |-> s.isTraining,
                  queueBefore |-> Len(s.trainingQueue),
                  queueAfter |-> Len(s2.trainingQueue),
                  cacheBefore |-> Cardinality(s.predictionCache),
                  cacheAfter |-> Cardinality(s2.predictionCache),
                  passesAfter |-> Len(s2.passes) ]

\* this.model = <m>: a fit() in flight keeps training the object it was
\* called on.
ReplaceModel(s, m) ==
    [s EXCEPT !.model = m,
              !.passes = [j \in DOMAIN @ |->
                            [@[j] EXCEPT !.before.model = m,
                                         !.detached = (@ \/ s.passes[j].pc \in {"fit", "fitting", "fitted"})]]]

\* this.modelLoss, this.lastTrainedAt, this.lastSampleSize from metadata.json
LoadMetadata(s, md) ==
    [s EXCEPT !.modelLoss = Some(md.loss),
              !.lastTrainedAt = md.lastTrainedAt,
              !.lastSampleSize = md.sampleSize,
              !.passes = [j \in DOMAIN @ |->
                            [@[j] EXCEPT !.before.modelLoss = Some(md.loss),
                                         !.before.lastTrainedAt = md.lastTrainedAt,
                                         !.before.lastSampleSize = md.sampleSize]]]

\* ----------------------------------------------------------------- initModel
\* The catch blocks and the no-model branch: createModel(), scheduleTraining().
InitModelFresh ==
    /\ CallScheduleTraining(ReplaceModel(Service, createModel), "initModel", Null)
    /\ initPc' = "done"
    /\ UNCHANGED << env, nearbyCalls, routeQueries, requests, emitted, now, clock0,
                    reports, disk, saving, submitted >>

\* fs.mkdir and fs.access(model.json) have resolved.
InitModelProbe ==
    /\ initPc = "probe"
    /\ \E fsThrows \in BOOLEAN :
         IF fsThrows \/ disk.model = Null
         THEN InitModelFresh
         ELSE /\ initPc' = "load"
              /\ ev' = NoEv
              /\ UNCHANGED << env, nearbyCalls, routeQueries, requests, emitted, scheduleCalls, passesStarted, auth, geo, poll,
                              now, clock0, reports, disk, model, isTraining,
                              lastTrainedAt, trainingQueue, predictionCache,
                              modelLoss, predictedHotspots, lastSampleSize,
                              passes, timers, saving, submitted, preds, lastRet,
                              pendingRequest >>

\* tf.loadLayersModel has resolved or thrown.
InitModelLoad ==
    /\ initPc = "load"
    /\ \E loadThrows \in BOOLEAN :
         IF loadThrows \/ disk.model = Null
         THEN InitModelFresh
         ELSE /\ Install(ReplaceModel(Service, disk.model))
              /\ initPc' = "metadata"
              /\ ev' = NoEv
              /\ UNCHANGED << env, nearbyCalls, routeQueries, requests, emitted, scheduleCalls, passesStarted, auth, geo, poll,
                              now, clock0, reports, disk, saving, submitted,
                              preds, lastRet, pendingRequest >>

\* fs.access(metadata.json) and fs.readFile have resolved; JSON.parse.
InitModelMetadata ==
    /\ initPc = "metadata"
    /\ \E parseThrows \in BOOLEAN :
         IF disk.metadata = Null
         THEN /\ initPc' = "done"
              /\ ev' = NoEv
              /\ UNCHANGED << env, nearbyCalls, routeQueries, requests, emitted, scheduleCalls, passesStarted, auth, geo, poll,
                              now, clock0, reports, disk, model, isTraining,
                              lastTrainedAt, trainingQueue, predictionCache,
                              modelLoss, predictedHotspots, lastSampleSize,
                              passes, timers, saving, submitted, preds, lastRet,
                              pendingRequest >>
         ELSE IF parseThrows
         THEN InitModelFresh
         ELSE LET md == disk.metadata[1]
              IN /\ Install(LoadMetadata(Service, md))
                 /\ initPc' = "done"
                 /\ ev' = NoEv
                 /\ UNCHANGED << env, nearbyCalls, routeQueries, requests, emitted, scheduleCalls, passesStarted, auth, geo, poll,
                                 now, clock0, reports, disk, saving, submitted,
                                 preds, lastRet, pendingRequest >>

\* ----------------------------------------------------- the training pass
\* What the other variables do during a step of a training pass.
PassFrame ==
    UNCHANGED << env, nearbyCalls, routeQueries, requests, emitted, scheduleCalls, passesStarted, auth, geo, poll,
                 now, clock0, reports, initPc, saving, submitted, preds,
                 lastRet, pendingRequest >>

\* trainModel() returns (normally or through its catch): processTrainingQueue
\* goes on to saveModel(), which awaits fs.mkdir and this.model.save().
TrainModelEv(s, i, outcome, n) ==
    [ op |-> "trainModel", outcome |-> outcome, nReports |-> n,
      before |-> s.passes[i].before, after |-> Snapshot(s) ]

\* this.lastSampleSize = reports.length, after the check of the minimum.
MinTrainingReports == 10
trainModelOnReports_sizeFirst(s, i, n, malformed) ==
    LET s1 == [s EXCEPT !.lastSampleSize = n]
    IN IF n < MinTrainingReports THEN SetPc(s1, i, "saveModel")
       ELSE IF malformed \/ s1.model = Null THEN SetPc(s1, i, "saveModel")
       ELSE SetPc(s1, i, "fit")
\* trainModel() once SafetyReport.find() has resolved with n reports: the
\* minimum, the sample size, the training data (reports.map throws on a
\* report without a location), the call of this.model.fit (it throws without
\* a model).  What is thrown is caught at the end of trainModel.
trainModelOnReports(s, i, n, malformed) ==
    IF n < MinTrainingReports
    THEN SetPc(s, i, "saveModel")
    ELSE LET s1 == [s EXCEPT !.lastSampleSize = n]
         IN IF malformed \/ s1.model = Null
            THEN SetPc(s1, i, "saveModel")
            ELSE SetPc(s1, i, "fit")

\* .limit(10000)
TrainingLimit == 10000

TrainFindResolve(i) ==
    /\ passes[i].pc = "find"
    /\ \E findThrows \in BOOLEAN :
         LET n == Min(Len(reports), TrainingLimit)
             malformed == HasMalformed(findNewest(reports, TrainingLimit))
             s2 == IF findThrows THEN SetPc(Service, i, "saveModel")
                   ELSE trainModelOnReports(Service, i, n, malformed)
             outcome == IF findThrows THEN "findThrew"
                        ELSE IF n < MinTrainingReports THEN "insufficient"
                        ELSE IF malformed THEN "malformed"
                        ELSE IF model = Null THEN "noModel"
                        ELSE "fitting"
         IN /\ Install(s2)
            /\ ev' = IF outcome = "fitting" THEN NoEv
                     ELSE TrainModelEv(s2, i, outcome, IF findThrows THEN 0 ELSE n)
    /\ UNCHANGED disk
    /\ PassFrame

\* fit() updates the weights of the object it was called on, in place, batch
\* by batch, and gives the event loop its turn in between: at "fit" no batch
\* has been applied, at "fitting" some have, at "fitted" all epochs are done
\* and the promise is about to resolve.
FitProgress(i) ==
    /\ passes[i].pc \in {"fit", "fitting"}
    /\ Install(LET s1 == SetPc(Service, i, IF passes[i].pc = "fit" THEN "fitting"
                                           ELSE "fitted")
               IN IF passes[i].detached THEN s1
                  ELSE [s1 EXCEPT !.model = Some(@[1] + 1)])
    /\ ev' = NoEv
    /\ UNCHANGED disk
    /\ PassFrame

\* fit() has resolved: lastTrainedAt and modelLoss are recorded.
FitResolve(i) ==
    /\ passes[i].pc = "fitted"
    /\ \E loss \in Losses :
         LET s2 == SetPc([Service EXCEPT !.lastTrainedAt = Some(now),
                                         !.modelLoss = Some(loss),
                                         !.passes[i].trained = TRUE], i, "saveModel")
         IN /\ Install(s2)
            /\ ev' = TrainModelEv(s2, i, "trained", lastSampleSize)
    /\ UNCHANGED disk
    /\ PassFrame

\* fit() has thrown, before or after it changed weights; trainModel's catch.
FitThrows(i) ==
    /\ passes[i].pc \in {"fit", "fitting", "fitted"}
    /\ LET s2 == SetPc(Service, i, "saveModel")
       IN /\ Install(s2)
          /\ ev' = TrainModelEv(s2, i, "fitThrew", lastSampleSize)
    /\ UNCHANGED disk
    /\ PassFrame

\* saveModel() has thrown (it rethrows what mkdir, model.save or writeFile
\* threw): processTrainingQueue logs it and goes on to identifyHotspots().
saveModelCatch_abort(s, i) == processTrainingQueueFinally(s, i)
saveModelCatch(s, i) ==
    [s EXCEPT !.passes[i].pc = "hotspots", !.passes[i].metadata = Null,
              !.passes[i].saveFailed = TRUE]

\* saveModel(): fs.mkdir and this.model.save() have resolved or thrown (also
\* when this.model is null).  On success the model files are on disk and,
\* if modelLoss is not null, metadata.json is being written.  On failure
\* processTrainingQueue logs and goes on to identifyHotspots().
SaveModelResolve(i) ==
    /\ passes[i].pc = "saveModel"
    /\ \E saveThrows \in BOOLEAN :
         IF saveThrows \/ model = Null
         THEN /\ Install(saveModelCatch(Service, i))
              /\ ev' = [op |-> "saveModel", outcome |-> "threw"]
              /\ UNCHANGED disk
         ELSE /\ disk' = [disk EXCEPT !.model = model]
              /\ ev' = [op |-> "saveModel", outcome |-> "saved"]
              /\ IF modelLoss # Null
                 THEN Install([Service EXCEPT
                         !.passes[i].pc = "saveMetadata",
                         !.passes[i].metadata =
                             Some([loss |-> modelLoss[1],
                                   lastTrainedAt |-> lastTrainedAt,
                                   sampleSize |-> lastSampleSize])])
                 ELSE Install(SetPc(Service, i, "hotspots"))
    /\ PassFrame

\* saveModel(): fs.writeFile(metadata.json) has resolved or thrown.
SaveMetadataResolve(i) ==
    /\ passes[i].pc = "saveMetadata"
    /\ \E writeThrows \in BOOLEAN :
         IF writeThrows
         THEN /\ Install(saveModelCatch(Service, i))
              /\ ev' = [op |-> "saveModel", outcome |-> "threw"]
              /\ UNCHANGED disk
         ELSE /\ disk' = [disk EXCEPT !.metadata = passes[i].metadata]
              /\ Install([Service EXCEPT !.passes[i].pc = "hotspots",
                                         !.passes[i].metadata = Null])
              /\ ev' = [op |-> "saveModel", outcome |-> "saved"]
    /\ PassFrame

\* ------------------------------------------------------------ predictSafety
\* Math.sin(lat * 10) and Math.cos(lng * 10), in thousandths, around the sample
\* coordinates: lat * 10 is pi/2 at P1 (sine 1 - d * d / 2 at d radians from
\* it) and 3 pi/2 at PFar; lng * 10 is 2 pi at P1.
SinLat10(lat) ==
    LET d == lat - 157080
        d3 == lat - 471239
        d5 == lat - 785398
    IN IF d > -20000 /\ d < 20000 THEN 1000 - (d * d) \div 20000000
       ELSE IF d5 > -20000 /\ d5 < 20000 THEN 1000 - (d5 * d5) \div 20000000
       ELSE IF d3 > -20000 /\ d3 < 20000 THEN (d3 * d3) \div 20000000 - 1000
       ELSE -1000
CosLng10(lng) ==
    LET d == lng - 628319
    IN IF d > -20000 /\ d < 20000 THEN 1000 - (d * d) \div 20000000 ELSE -1000

IsNight(hour) == hour >= 22 \/ hour <= 5

\* getHeuristicSafety(lat, lng) at the given hour, with the given value of
\* Math.random() * 0.1 - 0.05.
getHeuristicSafety(lat, lng, hour, randomFactor) ==
    LET baseScore == IF IsNight(hour) THEN 500
                     ELSE IF hour >= 18 /\ hour < 22 THEN 600
                     ELSE IF hour > 5 /\ hour < 8 THEN 650
                     ELSE 700
        latFactor == SinLat10(lat) \div 10
        lngFactor == CosLng10(lng) \div 10
        locationFactor == latFactor + lngFactor
    IN Max(100, Min(900, baseScore + locationFactor + randomFactor))

CacheGet(cache, key) ==
    IF \E e \in cache : e.key = key
    THEN Some(CHOOSE e \in cache : e.key = key)
    ELSE Null
\* Map.set
CacheSet_keepOld(cache, key, score, confidence, ts) ==
    IF \E e \in cache : e.key = key
    THEN cache
    ELSE cache \cup { [key |-> key, score |-> score, confidence |-> confidence,
                       timestamp |-> ts] }
CacheSet(cache, key, score, confidence, ts) ==
    { e \in cache : e.key # key }
      \cup { [key |-> key, score |-> score, confidence |-> confidence,
              timestamp |-> ts] }

\* cachedPrediction.timestamp > Date.now() - this.cacheTTL
IsFresh_inclusive(entry, t) == entry.timestamp >= t - cacheTTL
IsFresh(entry, t) == entry.timestamp > t - cacheTTL


\* Math.max(0.1, Math.min(0.9, safetyScore)), the last adjustment
ClampScore_none(score) == score
ClampScore(score) == Max(100, Min(900, score))

\* The model branch of predictSafety: the network's output after the night
\* and recent-incident penalties and the clamp.
AdjustScore(raw, hour, nearby, t) ==
    LET s1 == IF IsNight(hour) THEN Max(100, raw - 100) ELSE raw
        recentUnsafeCount ==
            Len(SelectSeq(nearby, LAMBDA r : t - r.timestamp < TicksPerDay
                                             /\ r.type \in {"unsafe", "incident"}))
        s2 == IF recentUnsafeCount > 0 THEN Max(100, s1 - 50 * recentUnsafeCount)
              ELSE s1
    IN ClampScore(s2)

RECURSIVE SumAges(_, _, _)
\* the sum of (now - reportTime) over the first n reports
SumAges(nearby, t, n) ==
    IF n = 0 THEN 0 ELSE (t - nearby[n].timestamp) + SumAges(nearby, t, n - 1)

\* avgDaysSince, in thousandths of a day
AvgDaysSince(nearby, t) ==
    (SumAges(nearby, t, Len(nearby)) * 1000) \div (Len(nearby) * TicksPerDay)

\* reportCountFactor * 0.7 + recencyFactor * 0.3
Confidence(nearby, t) ==
    LET reportCountFactor == Min(1000, Len(nearby) * 100)
        recencyFactor == Max(500, 1000 - AvgDaysSince(nearby, t) \div 30)
    IN (reportCountFactor * 7 + recencyFactor * 3) \div 10

\* The try block of predictSafety once findNearby has resolved (or thrown).
predictTry(lat, lng, t, hour, nearby, storeThrows, raw, inferThrows, rnd) ==
    IF storeThrows
    THEN [threw |-> TRUE]
    ELSE IF Len(nearby) = 0
    THEN [threw |-> FALSE, outcome |-> "resolved", path |-> "heuristic",
          score |-> getHeuristicSafety(lat, lng, hour, rnd), confidence |-> 500]
    ELSE IF inferThrows
    THEN [threw |-> TRUE]
    ELSE [threw |-> FALSE, outcome |-> "resolved", path |-> "model",
          score |-> AdjustScore(raw, hour, nearby, t),
          confidence |-> Confidence(nearby, t)]

\* The catch block of predictSafety.
predictCatch_rethrow(lat, lng, hour, rnd) ==
    [threw |-> TRUE, outcome |-> "rejected", path |-> "fallback",
     score |-> 0, confidence |-> 0]
predictCatch(lat, lng, hour, rnd) ==
    [threw |-> TRUE, outcome |-> "resolved", path |-> "fallback",
     score |-> getHeuristicSafety(lat, lng, hour, rnd), confidence |-> 500]

\* History: the result an earlier call for this key returned less than the
\* TTL ago, with no scheduleTraining() call since.
PrevFor(key, t) ==
    IF lastRet[key] # Null /\ t - lastRet[key][1].at < cacheTTL
    THEN Some(<< lastRet[key][1].score, lastRet[key][1].confidence >>)
    ELSE Null

\* The weights of this.model are those of a fit() that is part-way through.
MidFit ==
    \E i \in DOMAIN passes : passes[i].pc = "fitting" /\ ~passes[i].detached

PredictEv(p, r, t, entryTs, raw, rnd) ==
    [ op |-> "predictSafety", midFit |-> (r.path = "model" /\ MidFit), lat |-> p.lat, lng |-> p.lng, key |-> p.key,
      outcome |-> r.outcome, path |-> r.path, score |-> r.score,
      confidence |-> r.confidence, threw |-> r.threw, at |-> t,
      entryTs |-> entryTs, stale |-> p.stale, prev |-> p.prev,
      raw |-> raw, rnd |-> rnd, hour |-> Hour(t) ]

PredictFrame ==
    UNCHANGED << env, nearbyCalls, routeQueries, requests, emitted, scheduleCalls, passesStarted, auth, geo, poll,
                 now, clock0, reports, disk, model, isTraining, lastTrainedAt,
                 trainingQueue, modelLoss, predictedHotspots, lastSampleSize,
                 initPc, passes, timers, saving, submitted, pendingRequest >>

\* predictSafety(lat, lng), up to its return or to the await of findNearby.
PredictSafety(pt) ==
    LET key == CacheKey(pt.lat, pt.lng)
        cached == CacheGet(predictionCache, key)
        p == [lat |-> pt.lat, lng |-> pt.lng, key |-> key,
              prev |-> PrevFor(key, now),
              stale |-> (cached # Null /\ ~IsFresh(cached[1], now))]
    IN /\ IF model = Null
          THEN \E rnd \in env.randomFactors :
                 LET h == getHeuristicSafety(pt.lat, pt.lng, Hour(now), rnd)
                     r == [threw |-> FALSE, outcome |-> "resolved",
                           path |-> "noModel", score |-> h, confidence |-> 500]
                 IN /\ predictionCache' = CacheSet(predictionCache, key, h, 500, now)
                    /\ lastRet' = [lastRet EXCEPT ![key] =
                                     Some([score |-> h, confidence |-> 500, at |-> now])]
                    /\ ev' = PredictEv(p, r, now, now, 0, rnd)
                    /\ UNCHANGED preds
          ELSE IF cached # Null /\ IsFresh(cached[1], now)
          THEN LET r == [threw |-> FALSE, outcome |-> "resolved", path |-> "cached",
                         score |-> cached[1].score,
                         confidence |-> cached[1].confidence]
               IN /\ ev' = PredictEv(p, r, now, cached[1].timestamp, 0, 0)
                  /\ lastRet' = [lastRet EXCEPT ![key] =
                                   Some([score |-> r.score, confidence |-> r.confidence,
                                         at |-> now])]
                  /\ UNCHANGED << predictionCache, preds >>
          ELSE /\ Len(preds) < env.maxInflight
               /\ preds' = Append(preds, p)
               /\ ev' = NoEv
               /\ UNCHANGED << predictionCache, lastRet >>
       /\ PredictFrame

\* predictSafety: findNearby has resolved or thrown; the rest of the call.
PredictResolve(i) ==
    /\ i \in DOMAIN preds
    /\ LET p == preds[i]
           nearby == findNearby(reports, p.lat, p.lng, 500)
           hour == Hour(now)
       IN \E storeThrows \in BOOLEAN, inferThrows \in BOOLEAN,
             raw \in env.rawOutputs, rnd \in env.randomFactors :
         LET try == predictTry(p.lat, p.lng, now, hour, nearby,
                               storeThrows, raw, inferThrows, rnd)
             r == IF try.threw THEN predictCatch(p.lat, p.lng, hour, rnd)
                  ELSE try
         IN /\ predictionCache' =
                  IF r.outcome = "resolved"
                  THEN CacheSet(predictionCache, p.key, r.score, r.confidence, now)
                  ELSE predictionCache
            /\ lastRet' =
                  IF r.outcome = "resolved"
                  THEN [lastRet EXCEPT ![p.key] =
                          Some([score |-> r.score, confidence |-> r.confidence,
                                at |-> now])]
                  ELSE lastRet
            /\ ev' = PredictEv(p, r, now, now,
                               IF r.path = "model" THEN raw ELSE 0,
                               IF r.path = "model" THEN 0 ELSE rnd)
    /\ preds' = RemoveAt(preds, i)
    /\ PredictFrame

\* ---------------------------------------------------------- identifyHotspots
\* .limit(500), and the minimum for hotspot identification
HotspotLimit == 500
MinHotspotReports == 20
\* distance <= 2 (km), nearbyReports.length >= 3, slice(0, 5)
HotspotRadiusM == 2 * 1000
MinNeighbours == 3
TopCount == 5

\* Number.prototype.toFixed(3) of a non-negative coordinate, in thousandths.
toFixed3(x) == (x + 500) \div 1000
\* `${lat.toFixed(3)},${lng.toFixed(3)}`
LocationKey(loc) == << toFixed3(loc.lat), toFixed3(loc.lng) >>

\* reports.filter(r => calculateDistance(lat, lng, rLat, rLng) <= 2).length
NeighbourCount(fetched, loc) ==
    Len(SelectSeq(fetched, LAMBDA r : PlaceDistance[loc][r.location] <= HotspotRadiusM))

\* predictions.push({ location, safetyScore, confidence, category, reportCount })
Hotspot_inclusive(loc, score, confidence, count) ==
    [ location |-> loc, safetyScore |-> score, confidence |-> confidence,
      category |-> IF score >= 700 THEN "safe"
                   ELSE IF score <= 400 THEN "unsafe" ELSE "moderate",
      reportCount |-> count ]
Hotspot(loc, score, confidence, count) ==
    [ location |-> loc, safetyScore |-> score, confidence |-> confidence,
      category |-> IF score > 700 THEN "safe"
                   ELSE IF score < 400 THEN "unsafe" ELSE "moderate",
      reportCount |-> count ]

\* Array.prototype.sort with (a, b) => b[f] - a[f]: descending by field f,
\* equal elements in their original order.
InsertDesc(sorted, x, f) ==
    LET before == { j \in DOMAIN sorted : sorted[j][f] >= x[f] }
        k == Cardinality(before)
    IN SubSeq(sorted, 1, k) \o << x >> \o SubSeq(sorted, k + 1, Len(sorted))
RECURSIVE SortDesc(_, _)
SortDesc(s, f) ==
    IF s = << >> THEN << >>
    ELSE InsertDesc(SortDesc(SubSeq(s, 1, Len(s) - 1), f), s[Len(s)], f)

\* The removal of duplicates by `${lat.toFixed(5)},${lng.toFixed(5)}`.
RECURSIVE UniqueByKey(_, _)
UniqueByKey(s, seenKeys) ==
    IF s = << >> THEN << >>
    ELSE LET key == CacheKey(Head(s).location.lat, Head(s).location.lng)
         IN IF key \in seenKeys THEN UniqueByKey(Tail(s), seenKeys)
            ELSE << Head(s) >> \o UniqueByKey(Tail(s), seenKeys \cup {key})

\* The end of identifyHotspots: the 5 safest, the 5 least safe and the 5 most
\* active of the predictions, without duplicates.
FinalHotspots_sliceFour(predictions) ==
    LET sortedByScore == SortDesc(predictions, "safetyScore")
        n == Len(predictions)
        safest == SubSeq(sortedByScore, 1, Min(TopCount, n))
        unsafest == Reverse(SubSeq(sortedByScore, Max(1, n - TopCount + 2), n))
        sortedByActivity == SortDesc(predictions, "reportCount")
        mostActive == SubSeq(sortedByActivity, 1, Min(TopCount, n))
    IN UniqueByKey(safest \o unsafest \o mostActive, {})
FinalHotspots(predictions) ==
    LET sortedByScore == SortDesc(predictions, "safetyScore")
        n == Len(predictions)
        safest == SubSeq(sortedByScore, 1, Min(TopCount, n))
        unsafest == Reverse(SubSeq(sortedByScore, Max(1, n - TopCount + 1), n))
        sortedByActivity == SortDesc(predictions, "reportCount")
        mostActive == SubSeq(sortedByActivity, 1, Min(TopCount, n))
    IN UniqueByKey(safest \o unsafest \o mostActive, {})

\* The loop over the fetched reports: `todo` is the next report to look at,
\* `seen` is processedLocations, `waiting` the centre whose predictSafety call
\* awaits the report store.
NewScan(fetched) ==
    [ fetched |-> fetched, todo |-> 1, seen |-> {}, predictions |-> << >>,
      waiting |-> Null ]

\* The loop runs on until a predictSafety call has to await the report store
\* (a call answered from the cache resolves without giving other callbacks a
\* turn) or until the reports are exhausted.
RECURSIVE ScanLoop(_, _, _)
ScanLoop(run, cache, t) ==
    IF run.todo > Len(run.fetched) THEN run
    ELSE LET loc == run.fetched[run.todo].location
             next == [run EXCEPT !.todo = @ + 1]
         IN IF LocationKey(loc) \in run.seen
            THEN ScanLoop(next, cache, t)
            ELSE LET marked == [next EXCEPT !.seen = @ \cup {LocationKey(loc)}]
                     count == NeighbourCount(run.fetched, loc)
                     cached == CacheGet(cache, CacheKey(loc.lat, loc.lng))
                 IN IF count < MinNeighbours
                    THEN ScanLoop(marked, cache, t)
                    ELSE IF cached # Null /\ IsFresh(cached[1], t)
                    THEN ScanLoop([marked EXCEPT !.predictions =
                                      Append(@, Hotspot(loc, cached[1].score,
                                                        cached[1].confidence, count))],
                                  cache, t)
                    ELSE [marked EXCEPT !.waiting =
                                           Some([location |-> loc, count |-> count])]

\* The loop has stopped: either it awaits a prediction, or it is through and
\* this.predictedHotspots = uniqueHotspots.
ScanOutcome_publishEarly(s, run) ==
    [ s |-> [s EXCEPT !.predictedHotspots = FinalHotspots(run.predictions)],
      scan |-> IF run.waiting # Null THEN Some(run) ELSE Null ]
ScanOutcome(s, run) ==
    IF run.waiting # Null
    THEN [s |-> s, scan |-> Some(run)]
    ELSE [s |-> [s EXCEPT !.predictedHotspots = FinalHotspots(run.predictions)],
          scan |-> Null]

\* identifyHotspots() once SafetyReport.find() has resolved with `fetched` or
\* thrown: the catch block, the early return, or the loop.  With a report
\* without a location in the batch the first round of the loop throws, at the
\* report itself or in the filter over all reports, and the catch block ends
\* the call.
identifyHotspots(s, fetched, findThrows, t) ==
    IF findThrows \/ Len(fetched) < MinHotspotReports \/ s.model = Null
         \/ HasMalformed(fetched)
    THEN [s |-> s, scan |-> Null]
    ELSE ScanOutcome(s, ScanLoop(NewScan(fetched), s.predictionCache, t))

\* The awaited predictSafety call of a loop has returned r.
ScanDeliver(run, r) ==
    [run EXCEPT !.predictions =
                    Append(@, Hotspot(run.waiting[1].location, r.score,
                                      r.confidence, run.waiting[1].count)),
                !.waiting = Null]

\* What a call of identifyHotspots() did, recorded when it returns: the
\* reports it fetched, how many of them the loop looked at, the centres it
\* took as qualifying, and the set it installed.
IdentifyEv(by, outcome, run, response) ==
    [ op |-> "identifyHotspots", by |-> by, outcome |-> outcome,
      fetched |-> run.fetched, scanned |-> run.todo - 1,
      predictions |-> run.predictions,
      qualified |-> { run.predictions[k].location : k \in DOMAIN run.predictions },
      result |-> FinalHotspots(run.predictions), response |-> response ]

\* The record of a call of identifyHotspots() that returns as soon as
\* SafetyReport.find() has resolved or thrown.
IdentifyReturnEv(by, s, fetched, findThrows, t, response) ==
    IF findThrows
    THEN IdentifyEv(by, "threw", NewScan(<< >>), response)
    ELSE IF Len(fetched) < MinHotspotReports \/ s.model = Null
    THEN IdentifyEv(by, "skipped", NewScan(fetched), response)
    ELSE IF HasMalformed(fetched)
    THEN IdentifyEv(by, "aborted", NewScan(fetched), response)
    ELSE IdentifyEv(by, "installed",
                    ScanLoop(NewScan(fetched), s.predictionCache, t), response)

\* The predictSafety call a loop awaits: findNearby has resolved or thrown;
\* the call stores its result in the cache and returns it.
ScanPrediction(run, store, t, storeThrows, raw, inferThrows, rnd) ==
    LET loc == run.waiting[1].location
        nearby == findNearby(store, loc.lat, loc.lng, 500)
        try == predictTry(loc.lat, loc.lng, t, Hour(t), nearby,
                          storeThrows, raw, inferThrows, rnd)
    IN IF try.threw THEN predictCatch(loc.lat, loc.lng, Hour(t), rnd) ELSE try

\* The loop after that call: the prediction is pushed and the loop runs on.
ScanResume(s, run, r, t) ==
    LET loc == run.waiting[1].location
        s1 == [s EXCEPT !.predictionCache =
                          CacheSet(@, CacheKey(loc.lat, loc.lng), r.score,
                                   r.confidence, t)]
    IN [ s |-> s1, run |-> ScanLoop(ScanDeliver(run, r), s1.predictionCache, t) ]

ScanLastRet(run, r, t) ==
    LET loc == run.waiting[1].location
    IN [lastRet EXCEPT ![CacheKey(loc.lat, loc.lng)] =
          Some([score |-> r.score, confidence |-> r.confidence, at |-> t])]

HotspotFrame ==
    UNCHANGED << env, routeQueries, emitted, scheduleCalls, passesStarted, auth, geo, poll, now, clock0,
                 reports, disk, initPc, saving, submitted, preds,
                 pendingRequest >>

\* identifyHotspots() called by processTrainingQueue: SafetyReport.find() has
\* resolved or thrown.  When the call returns, the finally block ends the pass.
HotspotsFindResolve(i) ==
    /\ passes[i].pc = "hotspots"
    /\ \E findThrows \in BOOLEAN :
         LET fetched == IF findThrows THEN << >> ELSE findNewest(reports, HotspotLimit)
             out == identifyHotspots(Service, fetched, findThrows, now)
         IN IF out.scan # Null
            THEN /\ Install([out.s EXCEPT !.passes[i].pc = "scan",
                                          !.passes[i].scan = out.scan])
                 /\ ev' = NoEv
            ELSE /\ Install(processTrainingQueueFinally(out.s, i))
                 /\ ev' = IdentifyReturnEv("pass", Service, fetched, findThrows, now, Null)
    /\ UNCHANGED << nearbyCalls, requests, lastRet >>
    /\ HotspotFrame

\* The loop of a pass: the predictSafety call it awaited returns.
HotspotsPredictResolve(i) ==
    /\ passes[i].pc = "scan"
    /\ \E storeThrows \in BOOLEAN, inferThrows \in BOOLEAN,
          raw \in env.rawOutputs, rnd \in env.randomFactors :
         \E run \in {passes[i].scan[1]} :
         \E r \in {ScanPrediction(run, reports, now, storeThrows, raw, inferThrows, rnd)} :
         \E res \in {ScanResume(Service, run, r, now)} :
         \E out \in {ScanOutcome(res.s, res.run)} :
            /\ IF out.scan # Null
               THEN /\ Install([out.s EXCEPT !.passes[i].scan = out.scan])
                    /\ ev' = NoEv
               ELSE /\ Install(processTrainingQueueFinally(out.s, i))
                    /\ ev' = IdentifyEv("pass", "installed", res.run, Null)
            /\ lastRet' = ScanLastRet(run, r, now)
    /\ UNCHANGED << nearbyCalls, requests >>
    /\ HotspotFrame

\* ---------------------------------------------------------- getNearbyHotspots
\* radiusKm = 2
NearbyRadiusM == 2 * 1000

\* The value getNearbyHotspots returns.
NearbyResponse(hotspots, pt) ==
    LET nearbyHotspots ==
            SelectSeq(hotspots,
                      LAMBDA h : PlaceDistance[pt][h.location] <= NearbyRadiusM)
        ofCategory(c) == Len(SelectSeq(nearbyHotspots, LAMBDA h : h.category = c))
    IN [ hotspots |-> nearbyHotspots, totalCount |-> Len(nearbyHotspots),
         safeCount |-> ofCategory("safe"), unsafeCount |-> ofCategory("unsafe"),
         moderateCount |-> ofCategory("moderate") ]

\* getNearbyHotspots(lat, lng): with hotspots present it answers at once,
\* otherwise it calls identifyHotspots(), which awaits SafetyReport.find().
GetNearbyHotspots(pt) ==
    /\ requests.hotspots < env.maxHotspotRequests
    /\ requests' = [requests EXCEPT !.hotspots = @ + 1]
    /\ IF Len(predictedHotspots) = 0
       THEN /\ nearbyCalls' = Append(nearbyCalls, [pt |-> pt, pc |-> "find", scan |-> Null])
            /\ ev' = NoEv
       ELSE /\ ev' = [ op |-> "getNearbyHotspots", seen |-> predictedHotspots,
                       response |-> Some(NearbyResponse(predictedHotspots, pt)) ]
            /\ UNCHANGED nearbyCalls
    /\ UNCHANGED << model, isTraining, lastTrainedAt, trainingQueue, predictionCache,
                    modelLoss, predictedHotspots, lastSampleSize, passes, timers,
                    lastRet >>
    /\ HotspotFrame

\* identifyHotspots() called by getNearbyHotspots: SafetyReport.find() has
\* resolved or thrown.
NearbyFindResolve(j) ==
    /\ nearbyCalls[j].pc = "find"
    /\ \E findThrows \in BOOLEAN :
         LET fetched == IF findThrows THEN << >> ELSE findNewest(reports, HotspotLimit)
             out == identifyHotspots(Service, fetched, findThrows, now)
         IN /\ Install(out.s)
            /\ IF out.scan # Null
               THEN /\ nearbyCalls' = [nearbyCalls EXCEPT ![j].pc = "scan",
                                                          ![j].scan = out.scan]
                    /\ ev' = NoEv
               ELSE /\ nearbyCalls' = RemoveAt(nearbyCalls, j)
                    /\ ev' = IdentifyReturnEv("getNearbyHotspots", Service, fetched,
                                              findThrows, now,
                                 Some(NearbyResponse(out.s.predictedHotspots,
                                                     nearbyCalls[j].pt)))
    /\ UNCHANGED << requests, lastRet >>
    /\ HotspotFrame

\* The loop of a getNearbyHotspots call: the predictSafety call it awaited
\* returns.
NearbyPredictResolve(j) ==
    /\ nearbyCalls[j].pc = "scan"
    /\ \E storeThrows \in BOOLEAN, inferThrows \in BOOLEAN,
          raw \in env.rawOutputs, rnd \in env.randomFactors :
         LET run == nearbyCalls[j].scan[1]
             r == ScanPrediction(run, reports, now, storeThrows, raw, inferThrows, rnd)
             res == ScanResume(Service, run, r, now)
             out == ScanOutcome(res.s, res.run)
         IN /\ Install(out.s)
            /\ IF out.scan # Null
               THEN /\ nearbyCalls' = [nearbyCalls EXCEPT ![j].scan = out.scan]
                    /\ ev' = NoEv
               ELSE /\ nearbyCalls' = RemoveAt(nearbyCalls, j)
                    /\ ev' = IdentifyEv("getNearbyHotspots", "installed", res.run,
                                 Some(NearbyResponse(out.s.predictedHotspots,
                                                     nearbyCalls[j].pt)))
            /\ lastRet' = ScanLastRet(run, r, now)
    /\ UNCHANGED requests
    /\ HotspotFrame

\* ------------------------------------------------ SafetyController.getSafeRoutes
\* The JavaScript values of the score arithmetic: a number (in thousandths),
\* the object predictSafety resolves with, a string, NaN.
JsNumber(v) == [kind |-> "number", value |-> v]
JsObject(score) == [kind |-> "object", value |-> score]
\* a + b: the sum of two numbers; with an object operand, the concatenation
\* of the operands as strings.
JsAdd(a, b) ==
    IF a.kind = "number" /\ b.kind = "number" THEN JsNumber(a.value + b.value)
    ELSE [kind |-> "string", value |-> 0]
\* a / n: a string that is not a numeral gives NaN.
JsDiv(a, n) ==
    IF a.kind = "number" THEN JsNumber(a.value \div n)
    ELSE [kind |-> "NaN", value |-> 0]

\* findNearby(midPoint.lat, midPoint.lng, 0.2)
RouteRadiusM == 200
RouteUnsafeTypes == {"unsafe", "incident", "suspicious"}

\* The mid point a request is at.
RouteMidPoint(q) == RouteMidPoints(q.origin)[q.leg][q.mid]

\* predictSafety(...).catch(() => 0.5): the value of `score`.
RouteScore(r) ==
    IF r.outcome = "rejected" THEN JsNumber(500) ELSE JsObject(r.score)

\* totalScore += score
RouteAddScore(q, r) ==
    [q EXCEPT !.totalScore = JsAdd(@, RouteScore(r)),
              !.scores = Append(@, r.score),
              !.pc = "nearby"]

\* The call of predictSafety for the mid point the request is at, up to the
\* next await: of findNearby inside predictSafety, or (without a model, or
\* with a fresh cache entry) of findNearby at the mid point.
RouteCallPredict(s, q, t, rnd) ==
    LET pt == RouteMidPoint(q)
        key == CacheKey(pt.lat, pt.lng)
        cached == CacheGet(s.predictionCache, key)
        h == getHeuristicSafety(pt.lat, pt.lng, Hour(t), rnd)
    IN IF s.model = Null
       THEN [ s |-> [s EXCEPT !.predictionCache = CacheSet(@, key, h, 500, t)],
              q |-> RouteAddScore(q, [outcome |-> "resolved", score |-> h]) ]
       ELSE IF cached # Null /\ IsFresh(cached[1], t)
       THEN [ s |-> s,
              q |-> RouteAddScore(q, [outcome |-> "resolved", score |-> cached[1].score]) ]
       ELSE [ s |-> s, q |-> [q EXCEPT !.pc = "predict"] ]

\* routes.push({ start, end, safetyScore, incidents })
RoutePush(q) ==
    [q EXCEPT !.routes =
                 Append(@, [ start |-> q.origin,
                             end |-> generateRoutePoint(q.origin.lat, q.origin.lng,
                                                        q.leg, RouteRandom),
                             safetyScore |-> JsDiv(q.totalScore, MidCount),
                             incidents |-> q.incidents ]),
              !.predicted = Append(@, q.scores)]

\* What a request answered, with the scores predictSafety gave for the mid
\* points of each route.
RouteEv(status, input, q) ==
    [ op |-> "getSafeRoutes", status |-> status, input |-> input,
      routes |-> q.routes, predicted |-> q.predicted ]

NewRoute(origin) ==
    [ origin |-> origin, leg |-> 1, mid |-> 1, pc |-> "start",
      totalScore |-> JsNumber(0), incidents |-> 0, scores |-> << >>,
      routes |-> << >>, predicted |-> << >> ]

RouteFrame ==
    UNCHANGED << env, nearbyCalls, emitted, scheduleCalls, passesStarted, auth, geo, poll, now, clock0, reports,
                 disk, initPc, saving, submitted, preds, pendingRequest >>

\* GET /api/safety/routes: JSON.parse, the test of lat and lng, and the first
\* call of predictSafety.  `input` is Null when the location is not JSON.
GetSafeRoutes(input) ==
    /\ requests.routes < env.maxRouteQueries
    /\ requests' = [requests EXCEPT !.routes = @ + 1]
    /\ IF input = Null
       THEN /\ ev' = RouteEv(500, input, NewRoute(P1))
            /\ Install(Service)
            /\ UNCHANGED routeQueries
       ELSE IF input[1].lat = 0 \/ input[1].lng = 0
       THEN /\ ev' = RouteEv(400, input, NewRoute(input[1]))
            /\ Install(Service)
            /\ UNCHANGED routeQueries
       ELSE \E rnd \in env.randomFactors :
              LET out == RouteCallPredict(Service, NewRoute(input[1]), now, rnd)
              IN /\ Install(out.s)
                 /\ routeQueries' = Append(routeQueries, out.q)
                 /\ ev' = NoEv
    /\ UNCHANGED lastRet
    /\ RouteFrame

\* A request awaits predictSafety: findNearby inside it has resolved or
\* thrown, and predictSafety returns.
RoutePredictResolve(k) ==
    /\ routeQueries[k].pc = "predict"
    /\ \E raw \in env.rawOutputs, rnd \in env.randomFactors :
         LET q == routeQueries[k]
             pt == RouteMidPoint(q)
             key == CacheKey(pt.lat, pt.lng)
             try == predictTry(pt.lat, pt.lng, now, Hour(now),
                               findNearby(reports, pt.lat, pt.lng, 500),
                               env.storeFails, raw, env.modelFails, rnd)
             r == IF try.threw THEN predictCatch(pt.lat, pt.lng, Hour(now), rnd)
                  ELSE try
         IN /\ predictionCache' =
                  IF r.outcome = "resolved"
                  THEN CacheSet(predictionCache, key, r.score, r.confidence, now)
                  ELSE predictionCache
            /\ lastRet' =
                  IF r.outcome = "resolved"
                  THEN [lastRet EXCEPT ![key] =
                          Some([score |-> r.score, confidence |-> r.confidence,
                                at |-> now])]
                  ELSE lastRet
            /\ routeQueries' = [routeQueries EXCEPT ![k] = RouteAddScore(q, r)]
    /\ ev' = NoEv
    /\ UNCHANGED << model, isTraining, lastTrainedAt, trainingQueue, modelLoss,
                    predictedHotspots, lastSampleSize, passes, timers, requests >>
    /\ RouteFrame

\* A request awaits findNearby at a mid point: it has resolved or thrown.
\* The request goes on to the next mid point, the next route, or its answer.
RouteNearbyResolve(k) ==
    /\ routeQueries[k].pc = "nearby"
    /\ LET q == routeQueries[k]
           pt == RouteMidPoint(q)
           unsafeReports ==
               SelectSeq(findNearby(reports, pt.lat, pt.lng, RouteRadiusM),
                         LAMBDA r : r.type \in RouteUnsafeTypes)
           counted == [q EXCEPT !.incidents = @ + Len(unsafeReports)]
           pushed == RoutePush(counted)
       IN IF env.storeFails
          THEN /\ ev' = RouteEv(500, Some(q.origin), q)
               /\ routeQueries' = RemoveAt(routeQueries, k)
               /\ Install(Service)
          ELSE IF q.mid = MidCount /\ q.leg = RouteCount
          THEN /\ ev' = RouteEv(200, Some(q.origin), pushed)
               /\ routeQueries' = RemoveAt(routeQueries, k)
               /\ Install(Service)
          ELSE \E rnd \in env.randomFactors :
                 LET next == IF q.mid < MidCount
                             THEN [counted EXCEPT !.mid = @ + 1]
                             ELSE [pushed EXCEPT !.leg = @ + 1, !.mid = 1,
                                                 !.totalScore = JsNumber(0),
                                                 !.incidents = 0, !.scores = << >>]
                     out == RouteCallPredict(Service, next, now, rnd)
                 IN /\ Install(out.s)
                    /\ routeQueries' = [routeQueries EXCEPT ![k] = out.q]
                    /\ ev' = NoEv
    /\ UNCHANGED << requests, lastRet >>
    /\ RouteFrame

\* generateRoutePoints(lat, lng): the 8 points, with the distance that
\* calculateDistance gives from the origin to each.
GenerateRoutePoints(lat, lng, random) ==
    /\ LET points == [ i \in 1..RouteCount |-> generateRoutePoint(lat, lng, i, random) ]
       IN ev' = [ op |-> "generateRoutePoints", lat |-> lat, lng |-> lng,
                  random |-> random, points |-> points,
                  distances |-> [ i \in 1..RouteCount |->
                      calculateDistance(lat, lng, points[i].lat, points[i].lng) ] ]
    /\ UNCHANGED << env, now, clock0, reports, disk, model, isTraining,
                    lastTrainedAt, trainingQueue, predictionCache, modelLoss,
                    predictedHotspots, lastSampleSize, initPc, passes, timers,
                    saving, submitted, preds, nearbyCalls, routeQueries, requests,
                    emitted, scheduleCalls, passesStarted, auth, geo, poll, lastRet, pendingRequest >>

\* ------------------------------------------------- SafetyController.submitReport
\* if (!location || !description)
MissingFields_locationOnly(input) == input.location = Null
MissingFields(input) == input.location = Null \/ ~input.description

\* submitReport up to its return (400) or to the await of report.save()
\* (status 0: no response yet).
SubmitReport(input) ==
    /\ IF MissingFields(input)
       THEN /\ ev' = [op |-> "submitReport", status |-> 400, input |-> Some(input)]
            /\ UNCHANGED << saving, submitted >>
       ELSE /\ submitted < env.maxSubmit
            /\ saving' = Append(saving,
                           Rep(input.location[1], input.type, input.severity, now))
            /\ submitted' = submitted + 1
            /\ ev' = [op |-> "submitReport", status |-> 0, input |-> Some(input)]
    /\ UNCHANGED << env, nearbyCalls, routeQueries, requests, emitted, scheduleCalls, passesStarted, auth, geo, poll,
                    now, clock0, reports, disk, model, isTraining, lastTrainedAt,
                    trainingQueue, predictionCache, modelLoss, predictedHotspots,
                    lastSampleSize, initPc, passes, timers, preds, lastRet,
                    pendingRequest >>

\* SafetyMLService.scheduleTraining() at the end of submitReport: called for
\* every stored report.
schedulesTraining_never(report) == FALSE
schedulesTraining(report) == TRUE

\* report.save() has resolved: the report is stored.  getIO() and
\* io.emit('safetyUpdate') broadcast it, scheduleTraining() is called and the
\* response is 201; if the broadcaster throws, the catch block answers 500.
SaveResolve(i) ==
    /\ i \in DOMAIN saving
    /\ reports' = Append(reports, saving[i])
    /\ saving' = RemoveAt(saving, i)
    /\ \E emitThrows \in BOOLEAN :
         IF emitThrows
         THEN /\ ev' = [op |-> "submitReport", status |-> 500, input |-> Null]
              /\ UNCHANGED << emitted, scheduleCalls, passesStarted, auth, geo, poll, model, isTraining,
                              lastTrainedAt, trainingQueue, predictionCache,
                              modelLoss, predictedHotspots, lastSampleSize,
                              passes, timers, preds, lastRet, pendingRequest >>
         ELSE /\ emitted' = emitted + 1
              /\ IF schedulesTraining(saving[i])
                 THEN CallScheduleTraining(Service, "submitReport", Some(saving[i]))
                 ELSE /\ ev' = [op |-> "submitReport", status |-> 201,
                                input |-> Null]
                      /\ UNCHANGED << scheduleCalls, passesStarted, auth, geo, poll, model, isTraining,
                                      lastTrainedAt, trainingQueue, predictionCache,
                                      modelLoss, predictedHotspots, lastSampleSize,
                                      passes, timers, preds, lastRet,
                                      pendingRequest >>
    /\ UNCHANGED << env, nearbyCalls, routeQueries, requests, now, clock0, disk,
                    initPc, submitted >>

\* report.save() has thrown: the response is 500.
SaveThrows(i) ==
    /\ i \in DOMAIN saving
    /\ saving' = RemoveAt(saving, i)
    /\ ev' = [op |-> "submitReport", status |-> 500, input |-> Null]
    /\ UNCHANGED << env, nearbyCalls, routeQueries, requests, emitted, scheduleCalls, passesStarted, auth, geo, poll,
                    now, clock0, reports, disk, model, isTraining, lastTrainedAt,
                    trainingQueue, predictionCache, modelLoss, predictedHotspots,
                    lastSampleSize, initPc, passes, timers, submitted, preds,
                    lastRet, pendingRequest >>

\* ----------------------------------------------------- cleanupCache, getStatus
\* cleanupCache(): the entries older than the TTL are deleted.  No code of the
\* service calls it, and no timer is set for it.
cleanupCache(cache, t) == { e \in cache : ~(e.timestamp < t - cacheTTL) }

\* getStatus()
GetStatus ==
    /\ ev' = [ op |-> "getStatus", isReady |-> (model # Null),
               isTraining |-> isTraining, lastTrainedAt |-> lastTrainedAt,
               queueLength |-> Len(trainingQueue),
               cacheSize |-> Cardinality(predictionCache),
               sampleSize |-> lastSampleSize,
               predictedHotspots |->
                   SubSeq(predictedHotspots, 1, Min(10, Len(predictedHotspots))) ]
    /\ UNCHANGED << env, now, clock0, reports, disk, model, isTraining,
                    lastTrainedAt, trainingQueue, predictionCache, modelLoss,
                    predictedHotspots, lastSampleSize, initPc, passes, timers,
                    saving, submitted, preds, nearbyCalls, routeQueries, requests,
                    emitted, scheduleCalls, passesStarted, auth, geo, poll, lastRet, pendingRequest >>

\* ------------------------------------------------------------------- time
RECURSIVE RunTimers(_)
\* The callbacks of the pending timers: () => this.processTrainingQueue()
RunTimers(s) ==
    IF s.timers = 0 THEN s
    ELSE RunTimers(processTrainingQueue([s EXCEPT !.timers = @ - 1]))

\* One time unit passes.  A timer set by processTrainingQueue is due after
\* RescheduleDelayMs, less than a unit, so its callback has run by then.
Tick ==
    /\ now < env.maxTime
    /\ now' = now + 1
    /\ LET s2 == RunTimers(Service)
       IN /\ Install(s2)
          /\ pendingRequest' = IF Len(s2.passes) > Len(passes) THEN FALSE
                               ELSE pendingRequest
          /\ passesStarted' = passesStarted + (Len(s2.passes) - Len(passes))
          /\ UNCHANGED << auth, geo, poll >>
    /\ ev' = NoEv
    /\ UNCHANGED << env, nearbyCalls, routeQueries, requests, emitted, scheduleCalls,
                    clock0, reports, disk, initPc, saving, submitted, preds, lastRet >>

\* ------------------------------------------------------------------ client
\* What the client components leave alone: the whole server.
ServerUnchanged ==
    UNCHANGED << env, now, clock0, reports, disk, model, isTraining, lastTrainedAt,
                 trainingQueue, predictionCache, modelLoss, predictedHotspots,
                 lastSampleSize, initPc, passes, timers, saving, submitted, preds,
                 nearbyCalls, routeQueries, requests, emitted, scheduleCalls,
                 passesStarted, lastRet, pendingRequest >>

\* ---------------------------------------------------- client: AuthProvider
\* Requests the provider sends in one run, at most.
MaxAuthRequests == 5
\* The tokens the server hands out.
Tokens == {1, 2}

\* AuthProvider before it is mounted.  stored is localStorage's 'token',
\* header the Authorization default of axiosInstance, requests the requests
\* in flight (each with the closure's token), sent the requests sent so far;
\* loggedOut tells that logout() has completed and no login or registration
\* has succeeded since.
AuthInit ==
    [ mounted |-> FALSE, stored |-> Null, token |-> Null, user |-> Null,
      isAuthenticated |-> FALSE, loading |-> TRUE, error |-> "none",
      header |-> Null, requests |-> << >>, sent |-> 0, loggedOut |-> FALSE ]

\* The two effects on [token], run after a render in which the token differs
\* from oldToken: setAuthToken(token), then loadUser() up to its await.
loadUser(a, oldToken) ==
    IF a.token = oldToken THEN a
    ELSE IF a.token = Null
         THEN [a EXCEPT !.header = Null, !.loading = FALSE]
         ELSE [a EXCEPT !.header = a.token,
                        !.requests = Append(@, [kind |-> "me", token |-> a.token[1]]),
                        !.sent = @ + 1]

\* First render and first run of the effects; the token state starts from
\* localStorage.
AuthMount(saved) ==
    /\ ~auth.mounted
    /\ LET a0 == [AuthInit EXCEPT !.mounted = TRUE, !.stored = saved, !.token = saved]
           a1 == IF saved = Null
                 THEN [a0 EXCEPT !.loading = FALSE]
                 ELSE [a0 EXCEPT !.header = saved,
                                 !.requests = << [kind |-> "me", token |-> saved[1]] >>,
                                 !.sent = 1]
       IN  auth' = a1
    /\ ev' = [op |-> "AuthProvider", token |-> saved]
    /\ UNCHANGED << geo, poll >>
    /\ ServerUnchanged

\* login(email, password) or register(...), up to the await of the post.
\* The Login and Signup pages are shown while isAuthenticated is false.
AuthPost(kind) ==
    /\ auth.mounted
    /\ ~auth.isAuthenticated
    /\ auth.sent + 2 <= MaxAuthRequests
    /\ auth' = [auth EXCEPT !.requests = Append(@, [kind |-> kind, token |-> 0]),
                            !.sent = @ + 1]
    /\ ev' = [op |-> kind, step |-> "post"]
    /\ UNCHANGED << geo, poll >>
    /\ ServerUnchanged

\* The post of login or register returns: with a token (tok = Some(t)), or
\* without one or with an error (tok = Null).
AuthPostSettle(i, tok) ==
    /\ auth.requests[i].kind \in {"login", "register"}
    /\ LET kind == auth.requests[i].kind
           a0 == [auth EXCEPT !.requests = RemoveAt(@, i)]
           a1 == IF tok = Null
                 THEN [a0 EXCEPT !.error = kind]
                 ELSE [a0 EXCEPT !.stored = tok, !.token = tok,
                                 !.isAuthenticated = TRUE, !.error = "none",
                                 !.loggedOut = FALSE]
       IN  /\ auth' = loadUser(a1, auth.token)
           /\ ev' = [op |-> kind, step |-> "settled", ok |-> tok # Null]
    /\ UNCHANGED << geo, poll >>
    /\ ServerUnchanged

\* logout(), up to the await of the request.  The pages with a log-out
\* control are shown while isAuthenticated is true.
Logout ==
    /\ auth.mounted
    /\ auth.isAuthenticated
    /\ auth.sent < MaxAuthRequests
    /\ auth' = [auth EXCEPT !.requests = Append(@, [kind |-> "logout", token |-> 0]),
                            !.sent = @ + 1]
    /\ ev' = [op |-> "logout", step |-> "get"]
    /\ UNCHANGED << geo, poll >>
    /\ ServerUnchanged

\* The logout request returns or fails: the rest of logout() is the same.
LogoutSettle(i) ==
    /\ auth.requests[i].kind = "logout"
    /\ LET a1 == [auth EXCEPT !.requests = RemoveAt(@, i),
                              !.stored = Null, !.token = Null, !.user = Null,
                              !.isAuthenticated = FALSE, !.error = "none",
                              !.loggedOut = TRUE]
       IN  auth' = loadUser(a1, auth.token)
    /\ ev' = [op |-> "logout", step |-> "settled"]
    /\ UNCHANGED << geo, poll >>
    /\ ServerUnchanged

\* The /api/auth/me request of a loadUser() call returns: with the user's
\* data (ok), or without it or with an error.
MeSettle(i, ok) ==
    /\ auth.requests[i].kind = "me"
    /\ LET t  == auth.requests[i].token
           a0 == [auth EXCEPT !.requests = RemoveAt(@, i)]
           a1 == IF ok
                 THEN [a0 EXCEPT !.user = Some(t), !.isAuthenticated = TRUE,
                                 !.loading = FALSE, !.error = "none"]
                 ELSE [a0 EXCEPT !.stored = Null, !.token = Null, !.user = Null,
                                 !.isAuthenticated = FALSE, !.loading = FALSE,
                                 !.error = "session"]
       IN  /\ auth' = loadUser(a1, auth.token)
           /\ ev' = [op |-> "loadUser", ok |-> ok, token |-> t, held |-> auth.token]
    /\ UNCHANGED << geo, poll >>
    /\ ServerUnchanged

\* ---------------------------------------------------- client: MapContainer
MAX_LOCATION_ATTEMPTS == 3
\* getLocation() calls MapContainer makes in one run, at most.
MaxGeoCalls == 6

\* MapContainer before it is mounted.  script is the state of the Google
\* Maps script, map the identity of the map prop (0: null), maps the number
\* of Map objects made, calls the getLocation() promises pending and timers
\* the pending 2 s retries, each with the locationAttempts and map of the
\* initMap closure that made it; inEffect marks the call of the current
\* run of the loading effect, effectWatch that this run holds a watchId.
\* issued counts the getLocation() calls; fellBack is set by the fallback
\* to the default location and cleared by a position or by Retry Location.
GeoInit ==
    [ mounted |-> FALSE, script |-> "none", locationAttempts |-> 0, map |-> 0,
      maps |-> 0, currentLocation |-> "none", loadingLocation |-> FALSE,
      error |-> "none", calls |-> << >>, timers |-> << >>, watches |-> 0,
      effectWatch |-> FALSE, issued |-> 0, fellBack |-> FALSE ]

\* initMap() of the closure with these locationAttempts and map, up to its
\* await of getLocation().
initMap(g, attempts, map, inEffect) ==
    [g EXCEPT !.loadingLocation = TRUE,
              !.calls = Append(@, [attempts |-> attempts, map |-> map,
                                   inEffect |-> inEffect]),
              !.issued = @ + 1]

\* The loading effect after a render: initMap is a new function when
\* locationAttempts or map differ from those of the render before (old), and
\* then the cleanup of the last run and loadGoogleMaps() run again.
loadGoogleMaps(g, old) ==
    IF g.locationAttempts = old.locationAttempts /\ g.map = old.map THEN g
    ELSE LET cleaned ==
                 [g EXCEPT !.watches = IF g.effectWatch THEN @ - 1 ELSE @,
                           !.effectWatch = FALSE,
                           !.calls = [k \in DOMAIN @ |-> [@[k] EXCEPT !.inEffect = FALSE]]]
         IN  initMap(cleaned, g.locationAttempts, g.map, TRUE)

\* First render and first run of the loading effect: the script is added
\* ("script"), window.google is there already ("present"), or there is no
\* API key ("nokey").
GeoMount(mode) ==
    /\ ~geo.mounted
    /\ LET g0 == [GeoInit EXCEPT !.mounted = TRUE]
       IN  geo' = CASE mode = "script"  -> [g0 EXCEPT !.script = "loading"]
                    [] mode = "present" -> initMap([g0 EXCEPT !.script = "loaded"], 0, 0, TRUE)
                    [] OTHER            -> [g0 EXCEPT !.script = "nokey", !.error = "key"]
    /\ ev' = [op |-> "MapContainer", mode |-> mode]
    /\ UNCHANGED << auth, poll >>
    /\ ServerUnchanged

\* script.onload, or script.onerror.
GeoScriptSettle(ok) ==
    /\ geo.script = "loading"
    /\ geo' = IF ok
              THEN initMap([geo EXCEPT !.script = "loaded"], 0, 0, TRUE)
              ELSE [geo EXCEPT !.script = "failed", !.error = "maps",
                               !.loadingLocation = FALSE]
    /\ ev' = [op |-> "script", ok |-> ok]
    /\ UNCHANGED << auth, poll >>
    /\ ServerUnchanged

\* getLocation() of call i resolves: the rest of initMap's try block, then
\* the render and the loading effect.
GeoResolve(i) ==
    /\ i \in DOMAIN geo.calls
    /\ geo.issued < MaxGeoCalls
    /\ LET c  == geo.calls[i]
           g1 == [geo EXCEPT !.calls = RemoveAt(@, i),
                             !.currentLocation = "gps",
                             !.loadingLocation = FALSE,
                             !.locationAttempts = 0,
                             !.fellBack = FALSE,
                             !.maps = IF c.map = 0 THEN @ + 1 ELSE @,
                             !.map = IF c.map = 0 THEN geo.maps + 1 ELSE @,
                             !.watches = @ + 1,
                             !.effectWatch = @ \/ c.inEffect]
       IN  geo' = loadGoogleMaps(g1, geo)
    /\ ev' = [op |-> "initMap", outcome |-> "position"]
    /\ UNCHANGED << auth, poll >>
    /\ ServerUnchanged

\* getLocation() of call i rejects: initMap's catch block, then the render
\* and the loading effect.
GeoReject(i) ==
    /\ i \in DOMAIN geo.calls
    /\ geo.issued < MaxGeoCalls
    /\ LET c  == geo.calls[i]
           newAttempts == c.attempts + 1
           g0 == [geo EXCEPT !.calls = RemoveAt(@, i),
                             !.locationAttempts = newAttempts]
           g1 == IF newAttempts < MAX_LOCATION_ATTEMPTS
                 THEN [g0 EXCEPT !.error = "retrying",
                                 !.timers = Append(@, [attempts |-> c.attempts,
                                                       map |-> c.map])]
                 ELSE [g0 EXCEPT !.error = "default",
                                 !.loadingLocation = FALSE,
                                 !.currentLocation = "default",
                                 !.fellBack = TRUE,
                                 !.maps = IF c.map = 0 THEN @ + 1 ELSE @,
                                 !.map = IF c.map = 0 THEN geo.maps + 1 ELSE @]
       IN  /\ geo' = loadGoogleMaps(g1, geo)
           /\ ev' = [op |-> "initMap", outcome |-> "error", newAttempts |-> newAttempts]
    /\ UNCHANGED << auth, poll >>
    /\ ServerUnchanged

\* A 2 s retry timer fires: initMap() of the closure that set it.
GeoTimer(k) ==
    /\ k \in DOMAIN geo.timers
    /\ geo.issued < MaxGeoCalls
    /\ LET c == geo.timers[k]
       IN  geo' = initMap([geo EXCEPT !.timers = RemoveAt(@, k)], c.attempts, c.map, FALSE)
    /\ ev' = [op |-> "retryTimer"]
    /\ UNCHANGED << auth, poll >>
    /\ ServerUnchanged

\* A position from watchPosition.
GeoWatch ==
    /\ geo.watches > 0
    /\ geo' = [geo EXCEPT !.currentLocation = "gps"]
    /\ ev' = [op |-> "watchPosition"]
    /\ UNCHANGED << auth, poll >>
    /\ ServerUnchanged

\* The Retry Location button, shown from MAX_LOCATION_ATTEMPTS on:
\* setLocationAttempts(0) and initMap() of the current render, then the
\* render and the loading effect.
handleRefreshLocation ==
    /\ geo.mounted
    /\ geo.locationAttempts >= MAX_LOCATION_ATTEMPTS
    /\ geo.issued + 2 <= MaxGeoCalls
    /\ LET g1 == initMap([geo EXCEPT !.locationAttempts = 0, !.fellBack = FALSE],
                         geo.locationAttempts, geo.map, FALSE)
       IN  geo' = loadGoogleMaps(g1, geo)
    /\ ev' = [op |-> "handleRefreshLocation"]
    /\ UNCHANGED << auth, poll >>
    /\ ServerUnchanged

\* ---------------------------------------------------- client: ReportHandler
\* Runs of the model-status effect and fetchModelStatus() calls in one run
\* of the component, at most.
MaxPollRuns == 3
MaxPollFetches == 5

\* ReportHandler before it is mounted.  run numbers the runs of the
\* model-status effect (each run has its own fetchModelStatus closure),
\* interval tells that the interval of the current run is set, fetches are
\* the fetchModelStatus() calls awaiting a response and timeouts the pending
\* setTimeout(fetchModelStatus) callbacks, each with the run of its closure.
PollInit ==
    [ mounted |-> FALSE, run |-> 0, interval |-> FALSE, fetches |-> << >>,
      timeouts |-> << >>, isModelLoading |-> FALSE, modelStatus |-> "none",
      error |-> FALSE, started |-> 0 ]

\* fetchModelStatus() of the closure of this run, up to its first await.
fetchModelStatus(p, run) ==
    [p EXCEPT !.isModelLoading = IF p.mounted THEN TRUE ELSE @,
              !.fetches = Append(@, [run |-> run, stage |-> "status"]),
              !.started = @ + 1]

\* The body of the model-status effect: the initial fetch and setInterval.
PollEffect(p) ==
    [fetchModelStatus([p EXCEPT !.run = @ + 1], p.run + 1) EXCEPT !.interval = TRUE]

\* First render of ReportHandler and first run of the effect.
PollMount ==
    /\ ~poll.mounted
    /\ poll.run = 0
    /\ poll' = PollEffect([poll EXCEPT !.mounted = TRUE])
    /\ ev' = [op |-> "fetchModelStatus", run |-> 1, from |-> "effect"]
    /\ UNCHANGED << auth, geo >>
    /\ ServerUnchanged

\* map or currentLocation changes: the cleanup of the last run
\* (clearInterval), then the effect again.
PollDepsChange ==
    /\ poll.mounted
    /\ poll.run < MaxPollRuns
    /\ poll.started < MaxPollFetches
    /\ poll' = PollEffect([poll EXCEPT !.interval = FALSE])
    /\ ev' = [op |-> "fetchModelStatus", run |-> poll.run + 1, from |-> "effect"]
    /\ UNCHANGED << auth, geo >>
    /\ ServerUnchanged

\* ReportHandler unmounts: the cleanup of the last run.
PollUnmount ==
    /\ poll.mounted
    /\ poll' = [poll EXCEPT !.mounted = FALSE, !.interval = FALSE]
    /\ ev' = [op |-> "unmount"]
    /\ UNCHANGED << auth, geo >>
    /\ ServerUnchanged

\* The 30 s interval of the current run fires.
PollInterval ==
    /\ poll.interval
    /\ poll.started < MaxPollFetches
    /\ poll' = fetchModelStatus(poll, poll.run)
    /\ ev' = [op |-> "fetchModelStatus", run |-> poll.run, from |-> "interval"]
    /\ UNCHANGED << auth, geo >>
    /\ ServerUnchanged

\* The model-status request of call i returns: the model is not ready, it is
\* ready without hotspots ("empty") or with them ("hotspots"), or the
\* request failed.  Setters of an unmounted component do nothing.
PollStatusSettle(i, outcome) ==
    /\ i \in DOMAIN poll.fetches
    /\ poll.fetches[i].stage = "status"
    /\ LET f    == poll.fetches[i]
           done == [poll EXCEPT !.fetches = RemoveAt(@, i),
                                !.isModelLoading = FALSE]
           p1 == CASE outcome = "notReady" ->
                        [done EXCEPT !.timeouts = Append(@, f.run)]
                   [] outcome = "empty" ->
                        [poll EXCEPT !.fetches[i].stage = "generate",
                                     !.modelStatus = IF poll.mounted THEN "empty" ELSE @]
                   [] outcome = "hotspots" ->
                        [done EXCEPT !.modelStatus = IF poll.mounted THEN "hotspots" ELSE @]
                   [] OTHER ->
                        [done EXCEPT !.error = IF poll.mounted THEN TRUE ELSE @]
       IN  poll' = p1
    /\ ev' = [op |-> "modelStatus", outcome |-> outcome]
    /\ UNCHANGED << auth, geo >>
    /\ ServerUnchanged

\* The generate-hotspots request of call i returns (ok) or fails.
PollGenerateSettle(i, ok) ==
    /\ i \in DOMAIN poll.fetches
    /\ poll.fetches[i].stage = "generate"
    /\ LET f == poll.fetches[i]
       IN  poll' = [poll EXCEPT !.fetches = RemoveAt(@, i),
                                !.isModelLoading = FALSE,
                                !.timeouts = IF ok THEN Append(@, f.run) ELSE @]
    /\ ev' = [op |-> "generateHotspots", ok |-> ok]
    /\ UNCHANGED << auth, geo >>
    /\ ServerUnchanged

\* A setTimeout(fetchModelStatus) callback fires.
PollTimeout(k) ==
    /\ k \in DOMAIN poll.timeouts
    /\ poll.started < MaxPollFetches
    /\ poll' = fetchModelStatus([poll EXCEPT !.timeouts = RemoveAt(@, k)],
                                poll.timeouts[k])
    /\ ev' = [op |-> "fetchModelStatus", run |-> poll.timeouts[k], from |-> "timeout"]
    /\ UNCHANGED << auth, geo >>
    /\ ServerUnchanged

\* --------------------------------------------------- client specifications
NextAuth ==
    \/ \E saved \in {Null} \cup {Some(t) : t \in Tokens} : AuthMount(saved)
    \/ \E kind \in {"login", "register"} : AuthPost(kind)
    \/ \E i \in DOMAIN auth.requests :
         \E tok \in {Null} \cup {Some(t) : t \in Tokens} : AuthPostSettle(i, tok)
    \/ Logout
    \/ \E i \in DOMAIN auth.requests : LogoutSettle(i)
    \/ \E i \in DOMAIN auth.requests : \E ok \in BOOLEAN : MeSettle(i, ok)

NextGeo ==
    \/ \E mode \in {"script", "present", "nokey"} : GeoMount(mode)
    \/ \E ok \in BOOLEAN : GeoScriptSettle(ok)
    \/ \E i \in DOMAIN geo.calls : GeoResolve(i)
    \/ \E i \in DOMAIN geo.calls : GeoReject(i)
    \/ \E k \in DOMAIN geo.timers : GeoTimer(k)
    \/ GeoWatch
    \/ handleRefreshLocation

NextPoll ==
    \/ PollMount
    \/ PollDepsChange
    \/ PollUnmount
    \/ PollInterval
    \/ \E i \in DOMAIN poll.fetches :
         \E outcome \in {"notReady", "empty", "hotspots", "failed"} :
           PollStatusSettle(i, outcome)
    \/ \E i \in DOMAIN poll.fetches : \E ok \in BOOLEAN : PollGenerateSettle(i, ok)
    \/ \E k \in DOMAIN poll.timeouts : PollTimeout(k)

\* ------------------------------------------------------------ specification
\* The state once `new SafetyMLService()` has returned: the constructor has
\* set the fields and called initModel(), which awaits the file system.
InitWith(e, clocks, stores, disks) ==
    /\ env = e
    /\ now = 0
    /\ clock0 \in clocks
    /\ reports \in stores
    /\ disk \in disks
    /\ model = Null
    /\ isTraining = FALSE
    /\ lastTrainedAt = Null
    /\ trainingQueue = << >>
    /\ predictionCache = {}
    /\ modelLoss = Null
    /\ predictedHotspots = << >>
    /\ lastSampleSize = 0
    /\ initPc = "probe"
    /\ passes = << >>
    /\ timers = 0
    /\ saving = << >>
    /\ submitted = 0
    /\ preds = << >>
    /\ nearbyCalls = << >>
    /\ routeQueries = << >>
    /\ requests = [routes |-> 0, hotspots |-> 0]
    /\ emitted = 0
    /\ scheduleCalls = 0
    /\ passesStarted = 0
    /\ auth = AuthInit
    /\ geo = GeoInit
    /\ poll = PollInit
    /\ lastRet = [k \in Keys |-> Null]
    /\ pendingRequest = FALSE
    /\ ev = NoEv

Next ==
    \/ InitModelProbe
    \/ InitModelLoad
    \/ InitModelMetadata
    \/ \E i \in DOMAIN passes : TrainFindResolve(i)
    \/ \E i \in DOMAIN passes : FitProgress(i)
    \/ \E i \in DOMAIN passes : FitResolve(i)
    \/ \E i \in DOMAIN passes : FitThrows(i)
    \/ \E i \in DOMAIN passes : SaveModelResolve(i)
    \/ \E i \in DOMAIN passes : SaveMetadataResolve(i)
    \/ \E i \in DOMAIN passes : HotspotsFindResolve(i)
    \/ \E pt \in env.points : PredictSafety(pt)
    \/ \E i \in DOMAIN preds : PredictResolve(i)
    \/ \E input \in env.inputs : SubmitReport(input)
    \/ \E i \in DOMAIN saving : SaveResolve(i)
    \/ \E i \in DOMAIN saving : SaveThrows(i)
    \/ Tick

\* The training scheduler: every start of the service, one query point.
SchedEnv ==
    [ points |-> {P1}, inputs |-> SubmitInputs, maxTime |-> MaxTime,
      maxSubmit |-> MaxSubmit, maxInflight |-> MaxInflight,
      rawOutputs |-> {450}, randomFactors |-> {0} ]
Init == InitWith(SchedEnv, {21450}, {StoreNine, StoreTen}, InitialDisks)
Spec == Init /\ [][Next]_vars

\* The training scheduler as GET /api/safety/model-status sees it.
NextStatus ==
    \/ Next
    \/ GetStatus
SpecStatus == Init /\ [][NextStatus]_vars

\* The client components, each on its own; the server does not move.
ClientInit == InitWith(SchedEnv, {21450}, {StoreNine}, {DiskEmpty})
SpecAuth == ClientInit /\ [][NextAuth]_vars
SpecGeo == ClientInit /\ [][NextGeo]_vars
SpecPoll == ClientInit /\ [][NextPoll]_vars

\* Hotspot identification: a store of 20 reports around two centres, with or
\* without one more report that has no location, the
\* training pass that initModel() schedules, one getNearbyHotspots call.
NextHot ==
    \/ InitModelProbe
    \/ InitModelLoad
    \/ InitModelMetadata
    \/ \E i \in DOMAIN passes : TrainFindResolve(i)
    \/ \E i \in DOMAIN passes : FitProgress(i)
    \/ \E i \in DOMAIN passes : FitResolve(i)
    \/ \E i \in DOMAIN passes : FitThrows(i)
    \/ \E i \in DOMAIN passes : SaveModelResolve(i)
    \/ \E i \in DOMAIN passes : SaveMetadataResolve(i)
    \/ \E i \in DOMAIN passes : HotspotsFindResolve(i)
    \/ \E i \in DOMAIN passes : HotspotsPredictResolve(i)
    \/ \E pt \in env.points : GetNearbyHotspots(pt)
    \/ \E j \in DOMAIN nearbyCalls : NearbyFindResolve(j)
    \/ \E j \in DOMAIN nearbyCalls : NearbyPredictResolve(j)
    \/ Tick
HotEnv ==
    [ points |-> {P1, PFar}, inputs |-> {InputUnsafe}, maxTime |-> MaxTime,
      maxSubmit |-> MaxSubmit, maxInflight |-> MaxInflight,
      maxHotspotRequests |-> MaxHotspotRequests,
      rawOutputs |-> {450}, randomFactors |-> {0} ]
InitHot == InitWith(HotEnv, {28650}, {StoreTwenty, StoreMalformed}, InitialDisks)
SpecHot == InitHot /\ [][NextHot]_vars

\* A training pass from its start to its finally block, every call it awaits
\* resolving or throwing: the pass that initModel() schedules, over 9 or 20
\* reports.  Each awaited call eventually settles: as long as one is
\* outstanding, a step is taken (weak fairness of the next-state relation).
NextPass ==
    \/ InitModelProbe
    \/ InitModelLoad
    \/ InitModelMetadata
    \/ \E i \in DOMAIN passes : TrainFindResolve(i)
    \/ \E i \in DOMAIN passes : FitProgress(i)
    \/ \E i \in DOMAIN passes : FitResolve(i)
    \/ \E i \in DOMAIN passes : FitThrows(i)
    \/ \E i \in DOMAIN passes : SaveModelResolve(i)
    \/ \E i \in DOMAIN passes : SaveMetadataResolve(i)
    \/ \E i \in DOMAIN passes : HotspotsFindResolve(i)
    \/ \E i \in DOMAIN passes : HotspotsPredictResolve(i)
SpecPass ==
    /\ InitWith(HotEnv, {28650}, {StoreNine, StoreTwenty}, InitialDisks)
    /\ [][NextPass]_vars
    /\ WF_vars(NextPass)

\* Two computations of the hotspots at once while the store grows: no saved
\* model, so that initModel() schedules a pass; 20 reports, one submission at
\* P1 and one getNearbyHotspots call.
NextRegress ==
    \/ InitModelProbe
    \/ \E i \in DOMAIN passes : TrainFindResolve(i)
    \/ \E i \in DOMAIN passes : FitProgress(i)
    \/ \E i \in DOMAIN passes : FitResolve(i)
    \/ \E i \in DOMAIN passes : FitThrows(i)
    \/ \E i \in DOMAIN passes : SaveModelResolve(i)
    \/ \E i \in DOMAIN passes : SaveMetadataResolve(i)
    \/ \E i \in DOMAIN passes : HotspotsFindResolve(i)
    \/ \E i \in DOMAIN passes : HotspotsPredictResolve(i)
    \/ \E pt \in env.points : GetNearbyHotspots(pt)
    \/ \E j \in DOMAIN nearbyCalls : NearbyFindResolve(j)
    \/ \E j \in DOMAIN nearbyCalls : NearbyPredictResolve(j)
    \/ \E input \in env.inputs : SubmitReport(input)
    \/ \E i \in DOMAIN saving : SaveResolve(i)
    \/ \E i \in DOMAIN saving : SaveThrows(i)
SpecRegress ==
    /\ InitWith([HotEnv EXCEPT !.points = {P1}], {28650}, {StoreTwenty}, {DiskEmpty})
    /\ [][NextRegress]_vars

\* The selection of hotspots among 12 qualifying centres: a saved model, one
\* getNearbyHotspots request, each prediction of the loop from the model or
\* from the catch block of predictSafety.
NextRank ==
    \/ InitModelProbe
    \/ InitModelLoad
    \/ InitModelMetadata
    \/ \E pt \in env.points : GetNearbyHotspots(pt)
    \/ \E j \in DOMAIN nearbyCalls : NearbyFindResolve(j)
    \/ \E j \in DOMAIN nearbyCalls : NearbyPredictResolve(j)
SpecRank ==
    /\ InitWith([HotEnv EXCEPT !.points = {P1}], {28650}, {StoreRank}, {DiskSaved})
    /\ [][NextRank]_vars

\* Route queries: a store with reports on the first route, the store and the
\* model working or failing on every call, one request.
NextRoute ==
    \/ InitModelProbe
    \/ InitModelLoad
    \/ InitModelMetadata
    \/ \E input \in env.origins : GetSafeRoutes(input)
    \/ \E k \in DOMAIN routeQueries : RoutePredictResolve(k)
    \/ \E k \in DOMAIN routeQueries : RouteNearbyResolve(k)
    \/ Tick
StoreRoute ==
    << Rep(P1, "incident", 4, -1),
       Rep(RouteMidPoints(P1)[1][2], "safe", 1, -1),
       Rep(RouteMidPoints(P1)[1][2], "suspicious", 2, -1) >>
RouteEnv(storeFails, modelFails) ==
    [ origins |-> {Some(P1), Some(OriginEquator), Null}, maxTime |-> MaxTime,
      maxRouteQueries |-> MaxRouteQueries,
      storeFails |-> storeFails, modelFails |-> modelFails,
      rawOutputs |-> {450}, randomFactors |-> {0} ]
InitRoute ==
    \E storeFails \in BOOLEAN, modelFails \in BOOLEAN :
        InitWith(RouteEnv(storeFails, modelFails), {28650}, {StoreRoute}, {DiskSaved})
SpecRoute == InitRoute /\ [][NextRoute]_vars

\* Cache expiry: predictions for two keys and status requests while time
\* goes on past the TTL.  The clock and the completions of awaited I/O are
\* driven by the event loop (weak fairness); requests may stop coming.
NextExpiry ==
    \/ InitModelProbe
    \/ InitModelLoad
    \/ InitModelMetadata
    \/ \E pt \in env.points : PredictSafety(pt)
    \/ \E i \in DOMAIN preds : PredictResolve(i)
    \/ GetStatus
    \/ Tick
ExpiryEnv ==
    [ points |-> {P1, P3}, maxTime |-> ExpiryMaxTime, maxInflight |-> MaxInflight,
      rawOutputs |-> {450}, randomFactors |-> {0} ]
InitExpiry == InitWith(ExpiryEnv, {28650}, {StoreTen}, {DiskSaved})
SpecExpiry ==
    /\ InitExpiry
    /\ [][NextExpiry]_vars
    /\ WF_vars(Tick)
    /\ WF_vars(\E i \in DOMAIN preds : PredictResolve(i))
    /\ WF_vars(InitModelProbe \/ InitModelLoad \/ InitModelMetadata)

\* Route points: origins on the equator, at P1's latitude and 318 m from the
\* north pole, at several longitudes, with Math.random() from 0 to 0.999.
NextPoints ==
    \E lat \in {0, 157080, 89997137},
       lng \in {-120000000, -628319, 0, 1, 628319, 90000000, 179000000},
       random \in {0, 250, 500, 750, 999} :
        GenerateRoutePoints(lat, lng, random)
SpecPoints ==
    /\ InitWith(RouteEnv(FALSE, FALSE), {28650}, {StoreRoute}, {DiskSaved})
    /\ [][NextPoints]_vars

\* The prediction cache: two query points under one key, time up to the TTL.
CacheEnv ==
    [ points |-> {P1, P2}, inputs |-> {InputUnsafe}, maxTime |-> CacheMaxTime,
      maxSubmit |-> MaxSubmit, maxInflight |-> CacheMaxInflight,
      rawOutputs |-> {450}, randomFactors |-> {-50, 49} ]
InitCache == InitWith(CacheEnv, {21450}, {StoreTen}, {DiskSaved})
SpecCache == InitCache /\ [][Next]_vars

\* The arithmetic of a prediction: every store, both clocks, every output.
ScoreEnv ==
    [ points |-> {P1}, inputs |-> {InputUnsafe}, maxTime |-> MaxTime,
      maxSubmit |-> MaxSubmit, maxInflight |-> MaxInflight,
      rawOutputs |-> RawOutputs, randomFactors |-> RandomFactors ]
InitScore == InitWith(ScoreEnv, StartClocks, InitialStores, {DiskSaved})
SpecScore == InitScore /\ [][Next]_vars

\* ------------------------------------------------------------- properties
\* C1: at most one training pass is in flight at any time.
OnePassInFlight == Len(passes) <= 1
\* A scheduleTraining() call has just arrived while a pass was running, and
\* that pass is still the only one.
OnePassInFlight_Witness ==
    ev.op = "scheduleTraining" /\ ev.wasTraining /\ Len(passes) = 1

\* C2: a scheduleTraining() call made while a pass is in flight makes the
\* training queue one entry longer and starts no second pass.
ScheduleDuringPassEnqueues ==
    (ev.op = "scheduleTraining" /\ ev.wasTraining)
        => (ev.queueAfter = ev.queueBefore + 1 /\ ev.passesAfter = 1)

\* C3: when a scheduleTraining() call arrived during a pass and that pass has
\* ended without a later pass having started, a further pass is on its way:
\* the trigger is in the queue or the reschedule timer is set.
TriggerDuringPassRescheduled ==
    (pendingRequest /\ passes = << >>) => (Len(trainingQueue) > 0 \/ timers > 0)

\* C4: every scheduleTraining() call leaves the prediction cache empty when
\* it returns, whether or not a pass was in flight.
ScheduleLeavesCacheEmpty ==
    ev.op = "scheduleTraining" => predictionCache = {}

\* C5: a predictSafety call returns the same (score, confidence) as the last
\* call for the same key returned, when that was less than the TTL ago and
\* scheduleTraining() has not been called since.
CacheCoherence ==
    (ev.op = "predictSafety" /\ ev.prev # Null)
        => ev.prev = Some(<< ev.score, ev.confidence >>)

\* C6: a value served from the cache was written less than the TTL ago.
NeverServedStale ==
    (ev.op = "predictSafety" /\ ev.path = "cached")
        => ev.at - ev.entryTs < cacheTTL
\* A call found an entry TTL old or older under its key, with a model
\* loaded, and computed the result anew.
NeverServedStale_Witness ==
    /\ ev.op = "predictSafety"
    /\ ev.stale
    /\ ev.path \in {"heuristic", "model", "fallback"}
    /\ ev.entryTs = ev.at

\* C7: every result of predictSafety has its score in [0.1, 0.9] and its
\* confidence in [0, 1].
ResultInRange ==
    ev.op = "predictSafety"
        => (ev.score \in 100..900 /\ ev.confidence \in 0..1000)
\* The network's output was above the range and the result is the upper end.
ResultInRange_Witness ==
    ev.op = "predictSafety" /\ ev.path = "model" /\ ev.raw > 900 /\ ev.score = 900

\* C8: a predictSafety call in which the report store query or the inference
\* threw resolves with the heuristic score and confidence 0.5.
FailureFallsBackToHeuristic ==
    (ev.op = "predictSafety" /\ ev.threw)
        => /\ ev.outcome = "resolved"
           /\ ev.confidence = 500
           /\ ev.score = getHeuristicSafety(ev.lat, ev.lng, ev.hour, ev.rnd)
\* Such a call has returned.
FailureFallsBackToHeuristic_Witness ==
    ev.op = "predictSafety" /\ ev.threw /\ ev.path = "fallback"

\* C9: a trainModel() call that finds fewer than 10 reports leaves the
\* model, modelLoss, lastTrainedAt and lastSampleSize as they were.
TooFewReportsNoOp ==
    (ev.op = "trainModel" /\ ev.outcome = "insufficient")
        => ev.after = ev.before
\* trainModel() has returned after finding 9 reports, with a model present.
TooFewReportsNoOp_Witness ==
    /\ ev.op = "trainModel"
    /\ ev.outcome = "insufficient"
    /\ ev.nReports = MinTrainingReports - 1
    /\ ev.before.model # Null

\* C10: a trainModel() call that fails for another reason than too few
\* reports (the query throws, fit throws, there is no model) leaves the
\* model, modelLoss, lastTrainedAt and lastSampleSize as they were.
TrainingFailureContained ==
    (ev.op = "trainModel" /\ ev.outcome \in {"findThrew", "noModel", "fitThrew"})
        => ev.after = ev.before

\* C11: an inference of predictSafety runs on the weights as they were before
\* a training pass or as they are after it, never on weights that a fit()
\* still under way has changed in part.
InferenceSeesWholeModel ==
    (ev.op = "predictSafety" /\ ev.path = "model") => ~ev.midFit

\* C12: this.predictedHotspots changes only by the one assignment at the end
\* of an identifyHotspots call that went through all the reports it fetched,
\* and its new value is the complete result of that call.  So a reader sees
\* the initial empty set or the result of one finished computation.
HotspotsReplacedWhole ==
    [][predictedHotspots' # predictedHotspots =>
         /\ ev'.op = "identifyHotspots"
         /\ ev'.outcome = "installed"
         /\ ev'.scanned = Len(ev'.fetched)
         /\ predictedHotspots' = ev'.result]_vars
\* A pass has installed its two hotspots while the computation of a
\* getNearbyHotspots call is part-way through its loop.
HotspotsReplacedWhole_Witness ==
    /\ ev.op = "identifyHotspots" /\ ev.by = "pass" /\ ev.outcome = "installed"
    /\ Len(predictedHotspots) = 2
    /\ \E j \in DOMAIN nearbyCalls :
         nearbyCalls[j].pc = "scan" /\ Len(nearbyCalls[j].scan[1].predictions) > 0

\* The centres the loop of identifyHotspots would look at, each the first
\* fetched report of its 3-decimal key, that have at least 3 fetched reports
\* within 2 km.
QualifyingCenters(fetched) ==
    { fetched[k].location : k \in
        { k \in DOMAIN fetched :
            /\ \A h \in 1..(k - 1) :
                 LocationKey(fetched[h].location) # LocationKey(fetched[k].location)
            /\ NeighbourCount(fetched, fetched[k].location) >= MinNeighbours } }

\* C20: a call of identifyHotspots whose query succeeded takes as qualifying
\* exactly the centres with at least 3 fetched reports within 2 km, whatever
\* the total number of reports fetched.
HotspotsQualifyByNeighbours ==
    (ev.op = "identifyHotspots" /\ ev.outcome # "threw" /\ model # Null)
        => ev.qualified = QualifyingCenters(ev.fetched)

\* C16: a submission without a location or without a description is answered
\* with status 400 in the step that receives it, and that step persists
\* nothing, broadcasts nothing, schedules no training and leaves the
\* prediction cache, the queue and the passes as they were.
RejectedWithoutSideEffects ==
    [][(ev'.op = "submitReport" /\ ev'.input # Null
          /\ (ev'.input[1].location = Null \/ ~ev'.input[1].description))
        => /\ ev'.status = 400
           /\ UNCHANGED << reports, saving, submitted, emitted, scheduleCalls,
                           predictionCache, trainingQueue, isTraining, passes,
                           timers >>]_vars
\* A submission with a location and no description has been rejected.
RejectedWithoutSideEffects_Witness ==
    /\ ev.op = "submitReport" /\ ev.status = 400
    /\ ev.input[1].location # Null /\ ~ev.input[1].description

\* severity >= 4 || type === 'unsafe' || type === 'incident'
Significant(report) ==
    report.severity >= 4 \/ report.type \in {"unsafe", "incident"}

\* C17: submitReport calls scheduleTraining only for a significant report.
SchedulesOnlyIfSignificant ==
    (ev.op = "scheduleTraining" /\ ev.by = "submitReport")
        => Significant(ev.report[1])

\* C18: the step that accepts a submission of severity 5 and type unsafe
\* (the save has resolved, the answer is 201) makes exactly one call of
\* scheduleTraining, and the report is in the store when the call is made.
AcceptedSchedulesOnce ==
    [][(\E i \in DOMAIN saving :
          /\ saving[i].severity = 5 /\ saving[i].type = "unsafe"
          /\ saving' = RemoveAt(saving, i)
          /\ ev'.op \in {"submitReport", "scheduleTraining"}
          /\ ev'.status = 201)
        => /\ scheduleCalls' = scheduleCalls + 1
           /\ ev'.op = "scheduleTraining" /\ ev'.by = "submitReport"
           /\ Len(reports') = Len(reports) + 1
           /\ ev'.report = Some(reports'[Len(reports')])]_vars
\* A submission of severity 5 and type unsafe has been accepted.
AcceptedSchedulesOnce_Witness ==
    /\ ev.op = "scheduleTraining" /\ ev.by = "submitReport" /\ ev.status = 201
    /\ ev.report[1].severity = 5 /\ ev.report[1].type = "unsafe"
    /\ scheduleCalls >= 1

\* C19: when initModel() has created a fresh model and called
\* scheduleTraining(), a training pass that will train it is started or due:
\* a pass is at its query, or a request is queued, or a timer is pending.
FreshModelTrainingStarted ==
    (ev.op = "scheduleTraining" /\ ev.by = "initModel")
        => \/ \E i \in DOMAIN passes : passes[i].pc = "find"
           \/ Len(trainingQueue) > 0
           \/ timers > 0

RECURSIVE SumSeq(_)
SumSeq(s) == IF s = << >> THEN 0 ELSE Head(s) + SumSeq(Tail(s))

\* The stored reports of type unsafe, incident or suspicious within 0.2 km of
\* the mid points of a route, counted per mid point.
ExpectedIncidents(origin, leg) ==
    SumSeq([ m \in 1..MidCount |->
               LET pt == RouteMidPoints(origin)[leg][m]
               IN Len(SelectSeq(findNearby(reports, pt.lat, pt.lng, RouteRadiusM),
                                LAMBDA r : r.type \in RouteUnsafeTypes)) ])

\* C13: every record of an answered route query has a numeric safetyScore in
\* [0, 1] that is the mean of the scores predictSafety gave for its 3 mid
\* points, and an incident count that is the sum of the nearby unsafe,
\* incident and suspicious reports.
RouteRecordsAsSpecified ==
    (ev.op = "getSafeRoutes" /\ ev.status = 200)
        => \A k \in DOMAIN ev.routes :
             /\ ev.routes[k].safetyScore.kind = "number"
             /\ ev.routes[k].safetyScore.value \in 0..1000
             /\ ev.routes[k].safetyScore.value = SumSeq(ev.predicted[k]) \div MidCount
             /\ ev.routes[k].incidents = ExpectedIncidents(ev.routes[k].start, k)

\* C14: with the report store and the model raising on every call, a route
\* query with a valid origin is answered with 8 records of safetyScore 0.5
\* and 0 incidents.
RouteQueryNeverFails ==
    (ev.op = "getSafeRoutes" /\ env.storeFails /\ env.modelFails
       /\ ev.input # Null /\ ev.input[1].lat # 0 /\ ev.input[1].lng # 0)
        => /\ ev.status = 200
           /\ Len(ev.routes) = RouteCount
           /\ \A k \in DOMAIN ev.routes :
                ev.routes[k].safetyScore = JsNumber(500) /\ ev.routes[k].incidents = 0

\* C15: with a working report store, a route query whose origin has numeric
\* lat and lng (0 included) is answered with exactly 8 records.
EveryNumericOriginAnswered ==
    (ev.op = "getSafeRoutes" /\ ev.input # Null /\ ~env.storeFails)
        => ev.status = 200 /\ Len(ev.routes) = RouteCount

\* C21: when saveModel throws, the pass stays in flight and goes on to
\* identifyHotspots() with the model in memory unchanged; a pass whose save
\* failed is computing hotspots, and it ends by the return of
\* identifyHotspots, through the finally block.
SaveFailureNonFatal ==
    [][/\ (ev'.op = "saveModel" /\ ev'.outcome = "threw")
            => /\ \E i \in DOMAIN passes' :
                     passes'[i].saveFailed /\ passes'[i].pc = "hotspots"
               /\ model' = model
       /\ \A i \in DOMAIN passes' :
            passes'[i].saveFailed => (passes'[i].pc \in {"hotspots", "scan"} /\ isTraining')
       /\ ((\E i \in DOMAIN passes : passes[i].saveFailed) /\ passes' = << >>)
            => (ev'.op = "identifyHotspots" /\ ev'.by = "pass" /\ ~isTraining')]_vars
\* The save of a pass has failed and its hotspot loop has made a prediction
\* with the model in memory.
SaveFailureNonFatal_Witness ==
    \E i \in DOMAIN passes :
        /\ passes[i].saveFailed /\ passes[i].pc = "scan" /\ model # Null
        /\ Len(passes[i].scan[1].predictions) > 0

\* C22: a report without a location in the batch does not make trainModel
\* or identifyHotspots give up the batch (outcomes "malformed" and
\* "aborted"): identifyHotspots, when its query succeeded on 20 or more
\* reports with a model present, installs the hotspots of the reports that
\* do have a location.
MalformedReportsSkipped ==
    /\ ev.op = "trainModel" => ev.outcome # "malformed"
    /\ (ev.op = "identifyHotspots" /\ ev.outcome \notin {"threw", "skipped"})
         => /\ ev.outcome = "installed"
            /\ ev.qualified =
                 QualifyingCenters(SelectSeq(ev.fetched, LAMBDA r : r.location # Null))

\* C23: an entry that is in the cache and older than the TTL is eventually
\* no longer in the cache (and so no longer counted by getStatus), also when
\* its key is not requested again and no training is scheduled.  Stated for
\* the entries of the two query points written at time 0.
ExpiredEntriesRemoved ==
    \A pt \in {P1, P3} : \A ts \in {0} :
      LET k == CacheKey(pt.lat, pt.lng) IN
        (\E e \in predictionCache :
             e.key = k /\ e.timestamp = ts /\ e.timestamp < now - cacheTTL)
          ~> ~(\E e \in predictionCache : e.key = k /\ e.timestamp = ts)

\* C24: generateRoutePoints gives 8 points, each at a distance of 0.7 to
\* 1.3 km from the origin, at every origin latitude.  The distances are
\* allowed 10 m more on either side, for the rounding of the arithmetic here.
RoutePointsWithinBand ==
    ev.op = "generateRoutePoints"
        => /\ Len(ev.points) = RouteCount
           /\ \A i \in DOMAIN ev.distances :
                ev.distances[i] >= 700 - 10 /\ ev.distances[i] <= 1300 + 10

\* C25: a run of processTrainingQueue() that starts takes every queued trigger
\* with it: a step starts at most one run, leaves the queue empty and the flag
\* set, and the runs started never outnumber the scheduleTraining() calls.
TriggersCoalesce ==
    [][/\ passesStarted' <= scheduleCalls'
       /\ passesStarted' # passesStarted
            => /\ passesStarted' = passesStarted + 1
               /\ Len(passes') = Len(passes) + 1
               /\ trainingQueue' = << >>
               /\ isTraining']_vars

\* C25: a second run has started, each behind a scheduleTraining() call.
TriggersCoalesce_Witness ==
    /\ passesStarted = 2
    /\ scheduleCalls = 2
    /\ isTraining
    /\ trainingQueue = << >>

\* C26: when a predictSafety call has returned a result, the cache holds one
\* entry under the call's key, with the score and confidence it returned.
EveryResultCached ==
    (ev.op = "predictSafety" /\ ev.outcome = "resolved")
        => /\ \E e \in predictionCache :
                 e.key = ev.key /\ e.score = ev.score /\ e.confidence = ev.confidence
           /\ Cardinality({ e \in predictionCache : e.key = ev.key }) = 1

\* C26: a call whose try block threw has returned the heuristic of its catch
\* block, for a key that held another score before.
EveryResultCached_Witness ==
    /\ ev.op = "predictSafety"
    /\ ev.path = "fallback"
    /\ ev.outcome = "resolved"
    /\ ev.stale

\* C27: no training pass is in flight while this.model is absent, that is
\* before initModel() has loaded or created the model.
NoPassWhileModelAbsent ==
    model = Null => (passes = << >> /\ ~isTraining)

\* C28: once report.save() has stored the report, submitReport calls
\* scheduleTraining() and answers 201, whether or not the broadcast failed.
BroadcastFireAndForget ==
    [][Len(reports') > Len(reports)
         => /\ scheduleCalls' = scheduleCalls + 1
            /\ ev'.op = "scheduleTraining"
            /\ ev'.by = "submitReport"
            /\ ev'.status = 201]_vars

\* The number of predictions of p that lie above, or below, x in field f.
Above(p, x, f) == Cardinality({ k \in DOMAIN p : p[k][f] > x[f] })
Below(p, x, f) == Cardinality({ k \in DOMAIN p : p[k][f] < x[f] })

\* C29: the set identifyHotspots installs is made of the 5 highest-scoring,
\* the 5 lowest-scoring and the 5 most active of the qualifying centres (all
\* of them when there are at most 5), each once: every entry is a
\* qualifying centre that fewer than 5 others beat in one of the three
\* rankings, every centre that at most 4 others equal or beat in a ranking is
\* an entry, and no two entries have the same coordinates to 5 decimals.
HotspotsAreUnionOfTops ==
    (ev.op = "identifyHotspots" /\ ev.outcome = "installed")
        => LET p == ev.predictions
               n == Len(p)
               R == { ev.result[k] : k \in DOMAIN ev.result }
               P == { p[k] : k \in DOMAIN p }
           IN /\ predictedHotspots = ev.result
              /\ R \subseteq P
              /\ n <= 5 => R = P
              /\ \A x \in R :
                   \/ Above(p, x, "safetyScore") < 5
                   \/ Below(p, x, "safetyScore") < 5
                   \/ Above(p, x, "reportCount") < 5
              /\ \A x \in P :
                   (\/ n - Below(p, x, "safetyScore") <= 5
                    \/ n - Above(p, x, "safetyScore") <= 5
                    \/ n - Below(p, x, "reportCount") <= 5) => x \in R
              /\ \A i, j \in DOMAIN ev.result :
                   i # j => CacheKey(ev.result[i].location.lat, ev.result[i].location.lng)
                             # CacheKey(ev.result[j].location.lat, ev.result[j].location.lng)

\* C29: a call has installed its selection among 12 qualifying centres, and
\* a centre in the middle of all three rankings was left out.
HotspotsAreUnionOfTops_Witness ==
    /\ ev.op = "identifyHotspots"
    /\ ev.outcome = "installed"
    /\ Len(ev.predictions) = 12
    /\ Len(ev.result) < 12
    /\ predictedHotspots = ev.result

PersistedOnlyAfterTraining ==
    [][\A i \in DOMAIN passes :
         (passes[i].pc \in {"saveModel", "saveMetadata"} /\ ~passes[i].trained)
             => disk' = disk]_vars

\* C32: between two callbacks the training queue is empty and no reschedule
\* timer is pending, and getStatus reports a queue length of 0.
QueueEmptyAtRest ==
    /\ trainingQueue = << >>
    /\ timers = 0
    /\ ev.op = "getStatus" => ev.queueLength = 0

\* C32: getStatus answers while a pass is running, after a scheduleTraining()
\* call that arrived during that pass.
QueueEmptyAtRest_Witness ==
    /\ ev.op = "getStatus"
    /\ ev.isTraining
    /\ scheduleCalls = 2
    /\ passesStarted = 1

\* C33: whenever the training flag is set it is cleared again later, when
\* every call a pass awaits returns or throws.
TrainingFlagReleased == isTraining ~> ~isTraining

\* C33: a pass has ended with the flag cleared although its saveModel() and
\* then the query of identifyHotspots() threw.
TrainingFlagReleased_Witness ==
    /\ ~isTraining
    /\ passesStarted = 1
    /\ passes = << >>
    /\ ev.op = "identifyHotspots"
    /\ ev.outcome = "threw"
    /\ disk.model = Null

\* C34: the installed hotspot set never goes back to an older snapshot of the
\* reports.  Reports are only added, so a later snapshot holds every report
\* of an earlier one: the reportCount of a centre that stays in the set never
\* goes down, and the set is never replaced by one computed from fewer
\* reports than a set installed before it.
HotspotsNeverRegress ==
    [][\A i \in DOMAIN predictedHotspots : \A j \in DOMAIN predictedHotspots' :
         predictedHotspots'[j].location = predictedHotspots[i].location
             => predictedHotspots'[j].reportCount >= predictedHotspots[i].reportCount]_vars

\* C35: isAuthenticated is true only while a token is held; in particular it
\* stays false after logout() has completed, whatever request answers
\* afterwards, until a login or a registration succeeds.
AuthenticatedOnlyWithToken ==
    /\ auth.isAuthenticated => auth.token # Null
    /\ auth.loggedOut => ~auth.isAuthenticated

\* C36: once MapContainer has fallen back to the default location, it calls
\* getLocation() no more until Retry Location is pressed (or a position
\* arrives).
NoAttemptAfterFallback ==
    [][(geo.fellBack /\ geo'.fellBack) => geo'.issued = geo.issued]_vars

\* C37: fetchModelStatus() runs only for the current run of the model-status
\* effect of a mounted ReportHandler: never after the cleanup of its run.
NoFetchAfterCleanup ==
    ev.op = "fetchModelStatus" => (poll.mounted /\ ev.run = poll.run)
====
